---- MODULE Spec2Model ----
(***************************************************************************)
(* A model of the reMarkable stroke decoder and rasterizer front end       *)
(* (src/src/remarkable/render.py): the palette and colour resolver, the    *)
(* page dimension resolver, version sniffing, the structured decoder for   *)
(* generations 3 and 5, the heuristic decoder for generation 6, the page   *)
(* renderer and the notebook renderer.                                     *)
(*                                                                         *)
(* Representation choices:                                                 *)
(*  - a buffer is a sequence of bytes 0..255; Python offsets are 0-based,  *)
(*    so byte o of the code is data[o + 1] here;                           *)
(*  - a 32-bit colour word is the pair <<hi, lo>> of its top byte and its  *)
(*    low 24 bits (TLC's integers are 32-bit signed, a u32 does not fit);  *)
(*  - a decoded f32 is the integer it denotes (the generated inputs hold   *)
(*    integer-valued floats only; F32Exact says when a pattern is one),    *)
(*    or one of the values NaN, Inf, -Inf.                                 *)
(***************************************************************************)
EXTENDS Integers, Sequences, FiniteSets, TLC

VARIABLES
    colorIn, colorOut,      \* the colour resolver's argument and result
    sidecar, dimsOut,       \* the page dimension resolver's argument and result
    verIn, verOut,          \* the version sniffer's buffer and result
    file, cut,              \* the file written to disk and the bytes cut off its end
    data,                   \* rm_path.read_bytes()
    pc,                     \* where _parse_rm_file is
    version, n_layers, layer_i, n_strokes, stroke_i, n_seg, seg_i,
    off, color_id, points, strokes,    \* locals of _parse_rm_strokes
    pos, i, body, idx, best_n, best_start, idx_5c, all_x, all_y,
                            \* locals of _parse_rm_v6_strokes
    reads,                  \* every unpack attempted so far, as <<buffer, offset, size>>
    result,                 \* what _parse_rm_file returned or raised
    width, height,          \* render_rm_to_png's width and height arguments
    canvas_w, canvas_h,     \* locals of render_rm_to_png
    drawn, draw_k,          \* strokes_with_color once prepared, strokes drawn so far
    lines,                  \* every draw.line call so far, as <<stroke, from, to, fill, pixels>>
    image,                  \* the image: its size, its pixels, whether it was saved
    notebook, page_k,       \* render_notebook_pages' notebook, pages handled so far
    out_files, paths,       \* what out_pages_dir holds per page, the list built so far
    call,                   \* how render_notebook_pages ended
    scaleIn, scaleOut,      \* the rescaling's coordinate, box edges and dimension; its pixel
    xochitl,                \* the notebooks of the data directory, as their files say
    found, nb_k,            \* list_notebooks' result, notebooks handled so far
    page_paths, ocr_i,      \* the current notebook's rendered paths, pages read so far
    written,                \* every page image written so far, as its notebook, page and path
    ocr_calls,              \* every ocr_image call so far, as its image and cache key
    run                     \* where _run_notebook_mode is

colorVars == <<colorIn, colorOut>>
dimsVars == <<sidecar, dimsOut>>
verVars == <<verIn, verOut>>
structVars == <<n_layers, layer_i, n_strokes, stroke_i, n_seg, seg_i, off, color_id, points>>
v6Vars == <<pos, i, body, idx, best_n, best_start, idx_5c, all_x, all_y>>
parseVars == <<file, cut, data, pc, version, structVars, v6Vars, strokes, reads, result>>
renderVars == <<width, height, canvas_w, canvas_h, drawn, draw_k, lines, image>>
notebookVars == <<notebook, page_k, out_files, paths, call>>
pageVars == <<renderVars, notebookVars>>
scaleVars == <<scaleIn, scaleOut>>
runVars == <<xochitl, found, nb_k, page_paths, ocr_i, written, ocr_calls, run>>
toolVars == <<scaleVars, runVars>>
vars == <<colorVars, dimsVars, verVars, parseVars, pageVars, toolVars>>

\* "not computed yet", one per result type (TLC compares like with like)
NoRgb == <<-1, -1, -1>>
NoDims == [kind |-> "unset", w |-> 0, h |-> 0, exc |-> ""]
NoVer == [exc |-> "unset", v |-> 0]

RM2_WIDTH == 1404
RM2_HEIGHT == 1872

(***************************************************************************)
(* Palette and colour resolver                                             *)
(***************************************************************************)
STROKE_COLOR_MAP ==
    [k \in 0..10 |->
        CASE k = 0 -> <<0, 0, 0>>
          [] k = 1 -> <<128, 128, 128>>
          [] k = 2 -> <<255, 255, 255>>
          [] k = 3 -> <<255, 235, 156>>
          [] k = 4 -> <<174, 214, 241>>
          [] k = 5 -> <<183, 228, 199>>
          [] k = 6 -> <<255, 201, 201>>
          [] k = 7 -> <<220, 80, 80>>
          [] k = 8 -> <<100, 149, 237>>
          [] k = 9 -> <<255, 200, 100>>
          [] k = 10 -> <<200, 162, 200>>]

\* color_val >> 24, for a u32 word <<hi, lo>>
ColorHi(c) == c[1]
\* color_val & 0xFFFFFF
ColorLo(c) == c[2]
\* color_val > 0x00FFFFFF
ColorAbove24(c) == c[1] > 0
\* color_val in STROKE_COLOR_MAP
ColorInMap(c) == c[1] = 0 /\ c[2] \in DOMAIN STROKE_COLOR_MAP

\* The pairs <<a, channel>> for which the IEEE-754 binary64 evaluation of
\*   channel * (a / 255) + 255 * (1 - a / 255)
\* lands just below the integer that the exact value is, so that int()
\* truncates to one less than the exact result. Every other pair truncates
\* to the floor of the exact value.
BlendRoundsDown ==
    ({43, 59, 74, 91, 106, 107, 122} \X {0, 255}) \cup
    ({75, 90} \X {0, 17, 34, 51, 68, 85, 102, 119, 136, 153, 170, 187, 204, 221, 238, 255}) \cup
    ({123} \X {0, 85, 170, 255}) \cup
    ({132, 133, 140, 141, 148, 149, 156, 157, 164, 172, 173, 181, 188, 189, 196, 197, 198, 205, 206, 212, 213, 214, 222, 229, 230, 236, 237, 244, 246, 253, 254} \X {0}) \cup
    ({165} \X {0, 17, 34, 51}) \cup
    ({180} \X {0, 17, 34, 51, 68}) \cup
    ({204} \X {0, 5, 10, 15, 20, 25, 30, 35, 40, 45, 50, 55, 60, 65, 70, 75, 80, 85, 90, 95}) \cup
    ({220} \X {0, 51, 102}) \cup
    ({221} \X {0, 15, 30}) \cup
    ({228, 252} \X {0, 85}) \cup
    ({238} \X {0, 15}) \cup
    ({245} \X {0, 51})

\* floor of the exact value of ch * (a/255) + 255 * (1 - a/255)
BlendExactFloor(ch, a) == (255 * 255 - a * (255 - ch)) \div 255

\* int(ch * (a / 255) + 255 * (1 - a / 255)) as binary64 computes it
Blend(ch, a) ==
    IF <<a, ch>> \in BlendRoundsDown
    THEN BlendExactFloor(ch, a) - 1
    ELSE BlendExactFloor(ch, a)

ArgbToRgb(argb) ==
    LET r == (ColorLo(argb) \div 65536) % 256
        g == (ColorLo(argb) \div 256) % 256
        b == ColorLo(argb) % 256
        a == ColorHi(argb) % 256
    IN  IF a < 255 /\ a > 0
        THEN <<Blend(r, a), Blend(g, a), Blend(b, a)>>
        ELSE <<r, g, b>>

StrokeColorToRgbNoMap(color_val) ==
    IF ColorHi(color_val) >= 128 \/ ColorAbove24(color_val)
    THEN ArgbToRgb(color_val)
    ELSE <<0, 0, 0>>

StrokeColorToRgbArgbAlways(color_val) ==
    IF ColorInMap(color_val)
    THEN STROKE_COLOR_MAP[ColorLo(color_val)]
    ELSE ArgbToRgb(color_val)

StrokeColorToRgb(color_val) ==
    IF ColorInMap(color_val)
    THEN STROKE_COLOR_MAP[ColorLo(color_val)]
    ELSE IF ColorHi(color_val) >= 128 \/ ColorAbove24(color_val)
         THEN ArgbToRgb(color_val)
         ELSE <<0, 0, 0>>

\* The colour identifiers the resolver is applied to: every alpha byte, and
\* channel bytes that reach the palette, the blend and its rounding cases.
AlphaBytes == 0..255
RedBytes == {0, 17, 128, 255}
GreenBytes == {0, 255}
BlueBytes == (0..11) \cup {255}
ColorInputs ==
    {<<a, r * 65536 + g * 256 + b>> :
        a \in AlphaBytes, r \in RedBytes, g \in GreenBytes, b \in BlueBytes}

ColorInit == colorIn \in ColorInputs /\ colorOut = NoRgb
ColorIdle == colorIn = <<0, 0>> /\ colorOut = NoRgb

ResolveColor ==
    /\ colorOut = NoRgb
    /\ colorOut' = StrokeColorToRgb(colorIn)
    /\ UNCHANGED colorIn

(***************************************************************************)
(* Page dimension resolver                                                 *)
(***************************************************************************)
\* A JSON value as json.loads returns it, as far as truthiness and int() see
\* it. A number is held in halves (v = 2001 is 1000.5).
JAbsent == [t |-> "absent", v |-> 0]
JNull == [t |-> "null", v |-> 0]
JBool(b) == [t |-> "bool", v |-> b]
JNum(halves) == [t |-> "num", v |-> halves]
JNaN == [t |-> "nan", v |-> 0]
JInf == [t |-> "inf", v |-> 0]
\* a string: "" (v = 0), a decimal integer literal of value v, or other text
JStrEmpty == [t |-> "str_empty", v |-> 0]
JStrInt(n) == [t |-> "str_int", v |-> n]
JStrText == [t |-> "str_text", v |-> 0]
\* a list or a dict with v members
JList(n) == [t |-> "list", v |-> n]
JDict(n) == [t |-> "dict", v |-> n]

JValues ==
    {JAbsent, JNull, JBool(0), JBool(1), JNum(0), JNum(2000), JNum(4000),
     JNum(2001), JNum(-6), JNum(1), JNaN, JInf, JStrEmpty, JStrInt(1000),
     JStrText, JList(0), JList(1), JDict(0), JDict(1)}

\* dict.get(key): None for a missing key
DictGet(j) == IF j.t = "absent" THEN JNull ELSE j

\* Python truthiness
Truthy(j) ==
    CASE j.t \in {"absent", "null", "str_empty"} -> FALSE
      [] j.t \in {"bool", "num", "list", "dict"} -> j.v # 0
      [] OTHER -> TRUE

\* x or default
OrDefault(j, default) == IF Truthy(j) THEN j ELSE JNum(2 * default)

\* int(x): the value, or the exception it raises
PyInt(j) ==
    CASE j.t = "num" ->
            [exc |-> "", v |-> IF j.v >= 0 THEN j.v \div 2 ELSE -((-j.v) \div 2)]
      [] j.t = "bool" -> [exc |-> "", v |-> j.v]
      [] j.t = "str_int" -> [exc |-> "", v |-> j.v]
      [] j.t \in {"str_text", "str_empty", "nan"} -> [exc |-> "ValueError", v |-> 0]
      [] j.t = "inf" -> [exc |-> "OverflowError", v |-> 0]
      [] OTHER -> [exc |-> "TypeError", v |-> 0]

DimsOk(w, h) == [kind |-> "ok", w |-> w, h |-> h, exc |-> ""]
DimsRaise(e) == [kind |-> "raise", w |-> 0, h |-> 0, exc |-> e]

\* except (json.JSONDecodeError, OSError, TypeError)
DimsCaught == {"JSONDecodeError", "OSError", "TypeError"}

DimsExcept(e) ==
    IF e \in DimsCaught THEN DimsOk(RM2_WIDTH, RM2_HEIGHT) ELSE DimsRaise(e)

\* the body of the try block, for a document that parsed to a JSON object
DimsFromObjectCoupled(wField, hField) ==
    IF Truthy(DictGet(wField)) /\ Truthy(DictGet(hField))
    THEN DimsOk(PyInt(DictGet(wField)).v, PyInt(DictGet(hField)).v)
    ELSE DimsOk(RM2_WIDTH, RM2_HEIGHT)

DimsFromObject(wField, hField) ==
    LET w == OrDefault(DictGet(wField), RM2_WIDTH)
        h == OrDefault(DictGet(hField), RM2_HEIGHT)
    IN  IF PyInt(w).exc # "" THEN DimsExcept(PyInt(w).exc)
        ELSE IF PyInt(h).exc # "" THEN DimsExcept(PyInt(h).exc)
        ELSE DimsOk(PyInt(w).v, PyInt(h).v)

\* A sidecar: what the path is, and what the file holds.
\*   path: "none" (no path given), "missing" (not a file), "file"
\*   read: "oserror" (unreadable), "badutf8", "text"
\*   json: "invalid", or the type of the top-level value
Sidecar(path, read, json, w, h) ==
    [path |-> path, read |-> read, json |-> json, w |-> w, h |-> h]

JsonTops == {"invalid", "object", "array", "string", "number", "null", "bool"}

Sidecars ==
    {Sidecar("none", "text", "object", JAbsent, JAbsent),
     Sidecar("missing", "text", "object", JAbsent, JAbsent),
     Sidecar("file", "oserror", "object", JAbsent, JAbsent),
     Sidecar("file", "badutf8", "object", JAbsent, JAbsent)}
    \cup {Sidecar("file", "text", j, JAbsent, JAbsent) : j \in JsonTops \ {"object"}}
    \cup {Sidecar("file", "text", "object", w, h) : w \in JValues, h \in JValues}

GetPageDimensionsFromContent(sc) ==
    IF sc.path = "none" \/ sc.path = "missing"
    THEN DimsOk(RM2_WIDTH, RM2_HEIGHT)
    ELSE IF sc.read = "oserror" THEN DimsExcept("OSError")
    ELSE IF sc.read = "badutf8" THEN DimsExcept("UnicodeDecodeError")
    ELSE IF sc.json = "invalid" THEN DimsExcept("JSONDecodeError")
    ELSE IF sc.json # "object" THEN DimsExcept("AttributeError")
    ELSE DimsFromObject(sc.w, sc.h)

DimsInit == sidecar \in Sidecars /\ dimsOut = NoDims
DimsIdle == sidecar = Sidecar("none", "text", "object", JAbsent, JAbsent) /\ dimsOut = NoDims

ResolveDimensions ==
    /\ dimsOut = NoDims
    /\ dimsOut' = GetPageDimensionsFromContent(sidecar)
    /\ UNCHANGED sidecar

(***************************************************************************)
(* Bytes                                                                   *)
(***************************************************************************)
RECURSIVE Flatten(_)
Flatten(ss) == IF ss = <<>> THEN <<>> ELSE Head(ss) \o Flatten(Tail(ss))

RECURSIVE SumSeq(_)
SumSeq(s) == IF s = <<>> THEN 0 ELSE Head(s) + SumSeq(Tail(s))

Zeros(n) == [k \in 1..n |-> 0]

\* data[a:b] of Python, for 0 <= a
Slice(buf, a, b) ==
    IF b > Len(buf) THEN SubSeq(buf, a + 1, Len(buf)) ELSE SubSeq(buf, a + 1, b)

\* b"reMarkable .lines file, version="
HEADER_PREFIX ==
    <<114, 101, 77, 97, 114, 107, 97, 98, 108, 101, 32, 46, 108, 105, 110, 101,
      115, 32, 102, 105, 108, 101, 44, 32, 118, 101, 114, 115, 105, 111, 110, 61>>

(***************************************************************************)
(* Version sniffing                                                        *)
(***************************************************************************)
VerOk(v) == [exc |-> "", v |-> v]
VerRaise(e) == [exc |-> e, v |-> 0]

\* data[offset:].startswith(HEADER_PREFIX)
StartsWithPrefix(buf, offset) ==
    Slice(buf, offset, offset + Len(HEADER_PREFIX)) = HEADER_PREFIX

ReadRmVersionStrict(buf, offset) ==
    IF ~StartsWithPrefix(buf, offset)
    THEN VerRaise("ValueError: Invalid .rm header")
    ELSE LET o == offset + Len(HEADER_PREFIX)
             ver == Slice(buf, o, o + 1)
         IN  IF ver = <<51>> THEN VerOk(3)
             ELSE IF ver = <<53>> THEN VerOk(5)
             ELSE IF ver = <<54>> THEN VerOk(6)
             ELSE VerRaise("ValueError: Invalid .rm header")

ReadRmVersion(buf, offset) ==
    IF ~StartsWithPrefix(buf, offset)
    THEN VerRaise("ValueError: Invalid .rm header")
    ELSE LET o == offset + Len(HEADER_PREFIX)
             ver == Slice(buf, o, o + 1)
         IN  IF ver = <<51>> THEN VerOk(3)
             ELSE IF ver = <<53>> THEN VerOk(5)
             ELSE IF ver = <<54>> THEN VerOk(6)
             ELSE VerOk(3)

\* The buffers version sniffing is applied to: the prefix cut short, the
\* prefix alone, the prefix with one byte changed, a byte in front of the
\* prefix, and the prefix followed by one byte and a tail of spaces.
FollowBytes == (48..57) \cup {0, 32, 61, 255}
TailLens == {0, 10}
VersionInputs ==
    {SubSeq(HEADER_PREFIX, 1, n) : n \in 0..Len(HEADER_PREFIX)}
    \cup {[HEADER_PREFIX EXCEPT ![p] = (@ + 1) % 256] \o <<d>> :
            p \in 1..Len(HEADER_PREFIX), d \in {51, 53, 54}}
    \cup {<<32>> \o HEADER_PREFIX \o <<53>>}
    \cup {HEADER_PREFIX \o <<d>> \o [k \in 1..n |-> 32] : d \in FollowBytes, n \in TailLens}

VerInit == verIn \in VersionInputs /\ verOut = NoVer
VerIdle == verIn = <<>> /\ verOut = NoVer

SniffVersion ==
    /\ verOut = NoVer
    /\ verOut' = ReadRmVersion(verIn, 0)
    /\ UNCHANGED verIn

(***************************************************************************)
(* Fixed-layout fields                                                     *)
(***************************************************************************)
\* struct.unpack_from raises struct.error unless the buffer holds
\* `size` bytes at `offset`
Fits(buf, offset, size) == offset + size <= Len(buf)

\* "<I" as a number; a word of 2^31 or more is held as 2^31 - 1 (no buffer
\* within the bounds holds that many records, so the loops it bounds end
\* at the same failing read)
U32At(buf, offset) ==
    IF buf[offset + 4] >= 128
    THEN 2147483647
    ELSE buf[offset + 1] + 256 * buf[offset + 2] + 65536 * buf[offset + 3]
         + 16777216 * buf[offset + 4]

\* "<I" as a colour word <<hi, lo>>
ColorAt(buf, offset) ==
    <<buf[offset + 4], buf[offset + 1] + 256 * buf[offset + 2] + 65536 * buf[offset + 3]>>

\* "<f": sign, exponent and fraction of the pattern
F32Sign(buf, offset) == buf[offset + 4] \div 128
F32Exp(buf, offset) == (buf[offset + 4] % 128) * 2 + buf[offset + 3] \div 128
F32Frac(buf, offset) ==
    (buf[offset + 3] % 128) * 65536 + buf[offset + 2] * 256 + buf[offset + 1]

\* a float that is not a number, held as a number that no pattern denotes
NaN == 1073741824
\* a float that is infinite (or of magnitude 2^28 and more), with its sign
Inf == 268435456

\* the pattern denotes an integer of magnitude below 2^28
F32Exact(buf, offset) ==
    LET e == F32Exp(buf, offset)
        m == 8388608 + F32Frac(buf, offset)
    IN  \/ e = 0 /\ F32Frac(buf, offset) = 0
        \/ e >= 127 /\ e <= 150 /\ m % (2 ^ (150 - e)) = 0
        \/ e > 150 /\ e <= 154

\* "<f" as the integer it denotes (its integer part, held to Inf, when
\* F32Exact says it denotes none); NaN for exponent 255 with a fraction
F32At(buf, offset) ==
    LET e == F32Exp(buf, offset)
        m == 8388608 + F32Frac(buf, offset)
        mag == IF e < 127 THEN 0
               ELSE IF e <= 150 THEN m \div (2 ^ (150 - e))
               ELSE IF e <= 154 THEN m * (2 ^ (e - 150))
               ELSE Inf
    IN  IF e = 255 /\ F32Frac(buf, offset) # 0 THEN NaN
        ELSE IF F32Sign(buf, offset) = 1 THEN -mag ELSE mag

\* float arithmetic and comparison on these values: NaN propagates and
\* compares false with everything; an infinity absorbs a finite operand
IsNaN(x) == x = NaN
IsInf(x) == x = Inf \/ x = -Inf
IsFinite(x) == ~IsNaN(x) /\ ~IsInf(x)
FAdd(a, b) ==
    IF IsNaN(a) \/ IsNaN(b) THEN NaN
    ELSE IF IsInf(a) THEN (IF IsInf(b) /\ b # a THEN NaN ELSE a)
    ELSE IF IsInf(b) THEN b
    ELSE IF a + b >= Inf THEN Inf
    ELSE IF a + b <= -Inf THEN -Inf
    ELSE a + b
FSub(a, b) == FAdd(a, IF IsNaN(b) THEN NaN ELSE -b)
FLt(a, b) == ~IsNaN(a) /\ ~IsNaN(b) /\ a < b
FLe(a, b) == ~IsNaN(a) /\ ~IsNaN(b) /\ a <= b
FEq(a, b) == ~IsNaN(a) /\ ~IsNaN(b) /\ a = b

S_LAYER_size == 4
S_STROKE_V3_size == 20
S_STROKE_V5_size == 24
S_SEGMENT_size == 24

\* the size of the stroke record that `version` selects
StrokeSize(ver) == IF ver = 3 THEN S_STROKE_V3_size ELSE S_STROKE_V5_size

\* where n_seg lies in the stroke record
SegCountOffset(ver) == IF ver = 3 THEN 16 ELSE 20

(***************************************************************************)
(* Writing a file: struct.pack, as the tests build their buffers           *)
(***************************************************************************)
U32Bytes(n) ==
    <<n % 256, (n \div 256) % 256, (n \div 65536) % 256, (n \div 16777216) % 256>>

ColorBytes(c) ==
    <<c[2] % 256, (c[2] \div 256) % 256, (c[2] \div 65536) % 256, c[1]>>

\* struct.pack("<f", v) for an integer v of magnitude below 2^24, for an
\* infinity and for NaN
F32Bytes(v) ==
    IF v = 0 THEN <<0, 0, 0, 0>>
    ELSE IF v = NaN THEN <<0, 0, 192, 127>>
    ELSE IF v = Inf THEN <<0, 0, 128, 127>>
    ELSE IF v = -Inf THEN <<0, 0, 128, 255>>
    ELSE LET mag == IF v < 0 THEN -v ELSE v
             e == CHOOSE k \in 0..23 : 2 ^ k <= mag /\ mag < 2 ^ (k + 1)
             frac == (mag - 2 ^ e) * 2 ^ (23 - e)
             ex == e + 127
         IN  <<frac % 256, (frac \div 256) % 256,
               (ex % 2) * 128 + frac \div 65536,
               (IF v < 0 THEN 128 ELSE 0) + ex \div 2>>

\* the 43-byte header: the prefix, the version digit, ten spaces
HeaderBytes(digit) == HEADER_PREFIX \o <<digit>> \o [k \in 1..10 |-> 32]

\* what the writer puts in stroke s (counted over the file) and in
\* segment g (counted over the file)
StrokeColorOf(s) == IF s % 2 = 1 THEN <<0, s>> ELSE <<255, 16711680 + s>>
PointOf(g) == <<100 * g, 100 * g + 7>>

SegmentBytes(g) ==
    F32Bytes(PointOf(g)[1]) \o F32Bytes(PointOf(g)[2]) \o F32Bytes(1)
    \o F32Bytes(0) \o F32Bytes(2) \o F32Bytes(1)

\* the strokes of a file in on-disk order, as their segment counts
FlatStrokes(layers) == Flatten(layers)
\* strokes before layer i, segments before stroke s
StrokesBefore(layers, li) == SumSeq([k \in 1..(li - 1) |-> Len(layers[k])])
SegmentsBefore(layers, s) == SumSeq(SubSeq(FlatStrokes(layers), 1, s - 1))

StrokeBytes(layers, ver, s) ==
    U32Bytes(2) \o ColorBytes(StrokeColorOf(s)) \o U32Bytes(9) \o F32Bytes(2)
    \o (IF ver = 3 THEN <<>> ELSE U32Bytes(8))
    \o U32Bytes(FlatStrokes(layers)[s])
    \o Flatten([j \in 1..FlatStrokes(layers)[s] |->
                    SegmentBytes(SegmentsBefore(layers, s) + j)])

LayerBytes(layers, ver, li) ==
    U32Bytes(Len(layers[li]))
    \o Flatten([j \in 1..Len(layers[li]) |->
                    StrokeBytes(layers, ver, StrokesBefore(layers, li) + j)])

\* the layout the writer uses for a version digit: 5 for '5', else 3
LayoutOf(digit) == IF digit = 53 THEN 5 ELSE 3

StructuredBytes(digit, layers) ==
    HeaderBytes(digit) \o U32Bytes(Len(layers))
    \o Flatten([li \in 1..Len(layers) |-> LayerBytes(layers, LayoutOf(digit), li)])

MaxLayers == 2
MaxStrokes == 2
MaxSeg == 2
MaxRecords == 6
MaxCut == 25

\* '3', '5' and a digit that is neither of them nor '6'
StructuredDigits == {51, 53, 52}

LayerShapes == UNION {[1..n -> 0..MaxSeg] : n \in 0..MaxStrokes}
Weight(layers) ==
    Len(layers) + SumSeq([li \in 1..Len(layers) |-> Len(layers[li]) + SumSeq(layers[li])])
FileShapes ==
    {f \in UNION {[1..n -> LayerShapes] : n \in 0..MaxLayers} : Weight(f) <= MaxRecords}

StructuredFile(digit, layers) ==
    [gen |-> "structured", digit |-> digit, layers |-> layers, blocks |-> <<>>]

\* A generation-6 file: the header and stroke blocks. Block k holds
\* `pre` bytes (the colour word 18 bytes before their end when they are
\* that many), the point-array marker 0x5C, the array's length 14 * npts
\* and npts points of 14 bytes (one filler point when npts = 0).
LINE_DEF_FLAG_bytes == <<0, 2, 2, 5>>
POINT_MARKER == 92
POINT_SIZE == 14

V6PointBytes(g) == F32Bytes(PointOf(g)[1]) \o F32Bytes(PointOf(g)[2]) \o Zeros(6)

V6BodyBytes(blocks, k) ==
    LET b == blocks[k]
        g0 == SumSeq([j \in 1..(k - 1) |-> blocks[j].npts])
    IN  (IF b.pre >= 18
         THEN Zeros(b.pre - 18) \o ColorBytes(StrokeColorOf(k)) \o Zeros(14)
         ELSE Zeros(b.pre))
        \o <<POINT_MARKER>> \o U32Bytes(POINT_SIZE * b.npts)
        \o (IF b.npts = 0
            THEN Zeros(POINT_SIZE)
            ELSE Flatten([j \in 1..b.npts |-> V6PointBytes(g0 + j)]))

V6BlockBytes(blocks, k) ==
    U32Bytes(Len(V6BodyBytes(blocks, k))) \o LINE_DEF_FLAG_bytes \o Zeros(4)
    \o V6BodyBytes(blocks, k)

V6Bytes(blocks) ==
    HeaderBytes(54) \o Flatten([k \in 1..Len(blocks) |-> V6BlockBytes(blocks, k)])

MaxBlocks == 2
MaxPts == 2
PreLens == {0, 18}

V6BlockKinds == [pre : PreLens, npts : 0..MaxPts]
V6File(blocks) == [gen |-> "v6", digit |-> 54, layers |-> <<>>, blocks |-> blocks]

\* A generation-6 file whose blocks hold several 0x5C arrays each. An
\* array is the marker, a declared length and point bytes:
\*   "ok"   declares 14 * n and holds n points; with sp = "nan" the x of
\*          its last point is NaN
\*   "zero" declares 0 and holds one point
\*   "odd"  declares 15 and holds one point
\*   "long" declares 14 * (n + 2) and holds n points, so that it fits only
\*          when enough bytes follow it in the block
MaxArrays == 2
ArrayKinds ==
    [kind : {"ok"}, n : 1..MaxPts, sp : {"none", "nan"}]
    \cup [kind : {"zero", "odd", "long"}, n : {1}, sp : {"none"}]

DeclaredLen(a) ==
    IF a.kind = "ok" THEN POINT_SIZE * a.n
    ELSE IF a.kind = "zero" THEN 0
    ELSE IF a.kind = "odd" THEN POINT_SIZE + 1
    ELSE POINT_SIZE * (a.n + 2)

\* point j of an array whose points follow the g0 points written before it
ArrayPoint(a, g0, j) ==
    IF a.sp = "nan" /\ j = a.n
    THEN <<NaN, PointOf(g0 + j)[2]>>
    ELSE PointOf(g0 + j)

ArrayBytes(a, g0) ==
    <<POINT_MARKER>> \o U32Bytes(DeclaredLen(a))
    \o Flatten([j \in 1..a.n |->
                    F32Bytes(ArrayPoint(a, g0, j)[1]) \o F32Bytes(ArrayPoint(a, g0, j)[2])
                    \o Zeros(6)])

\* the points held by the arrays before array q of a block
PointsBeforeArray(arrays, q) == SumSeq([j \in 1..(q - 1) |-> arrays[j].n])
PointsInBlock(b) == PointsBeforeArray(b.arrays, Len(b.arrays) + 1)
PointsBeforeBlock(blocks, k) == SumSeq([j \in 1..(k - 1) |-> PointsInBlock(blocks[j])])

V6ArraysBodyBytes(blocks, k) ==
    LET b == blocks[k]
    IN  (IF b.pre >= 18
         THEN Zeros(b.pre - 18) \o ColorBytes(StrokeColorOf(k)) \o Zeros(14)
         ELSE Zeros(b.pre))
        \o Flatten([q \in 1..Len(b.arrays) |->
                        ArrayBytes(b.arrays[q],
                                   PointsBeforeBlock(blocks, k)
                                   + PointsBeforeArray(b.arrays, q))])

\* the length word written before a block's marker: the body's length, or
\* 0, or a length that runs 1000 bytes past the body, or 2 MiB + 1
BlockLens == {"true", "zero", "over", "huge"}

LengthWord(b, n) ==
    IF b.len = "zero" THEN 0
    ELSE IF b.len = "over" THEN n + 1000
    ELSE IF b.len = "huge" THEN 2097153
    ELSE n

V6ArraysBlockBytes(blocks, k) ==
    U32Bytes(LengthWord(blocks[k], Len(V6ArraysBodyBytes(blocks, k))))
    \o LINE_DEF_FLAG_bytes \o Zeros(4)
    \o V6ArraysBodyBytes(blocks, k)

V6ArraysBytes(blocks) ==
    HeaderBytes(54) \o Flatten([k \in 1..Len(blocks) |-> V6ArraysBlockBytes(blocks, k)])

V6ArrayBlocks ==
    [pre : PreLens, arrays : UNION {[1..n -> ArrayKinds] : n \in 1..MaxArrays},
     len : BlockLens]
V6ArraysFile(blocks) == [gen |-> "v6arrays", digit |-> 54, layers |-> <<>>, blocks |-> blocks]
V6ArraysFiles ==
    {V6ArraysFile(b) :
        b \in {bb \in UNION {[1..n -> V6ArrayBlocks] : n \in 0..MaxBlocks} :
                  /\ SumSeq([k \in 1..Len(bb) |-> Len(bb[k].arrays)]) <= MaxArrays
                  /\ Cardinality({k \in 1..Len(bb) : bb[k].len # "true"}) <= 1}}

\* a whole file, a file cut inside its last point, a file cut before it
V6Cuts == {0, 1, POINT_SIZE + 1}

\* Page files written from explicit points.
\* the strokes a page file may hold, as their points: a lone point, two
\* diagonals that cross (both leave the canvas on either side), a stroke
\* whose first x is NaN, one whose first y is infinite, a horizontal stroke
StrokeShapes ==
    {<<<<3, 2>>>>,
     <<<<-50, 3>>, <<250, 120>>>>,
     <<<<250, 3>>, <<-50, 120>>>>,
     <<<<NaN, 60>>, <<250, 120>>>>,
     <<<<2, Inf>>, <<250, 120>>>>,
     <<<<0, 3>>, <<250, 3>>>>}

MaxPagePoints == 4

ShapeSeqs ==
    {ss \in UNION {[1..n -> StrokeShapes] : n \in 0..MaxPagePoints} :
        SumSeq([k \in 1..Len(ss) |-> Len(ss[k])]) <= MaxPagePoints}

PageSegmentBytes(pt) ==
    F32Bytes(pt[1]) \o F32Bytes(pt[2]) \o F32Bytes(1) \o F32Bytes(0) \o F32Bytes(2)
    \o F32Bytes(1)

\* stroke s of a generation-3 page: the record, then its segments
PageStrokeBytes(shape, s) ==
    U32Bytes(2) \o ColorBytes(StrokeColorOf(s)) \o U32Bytes(9) \o F32Bytes(2)
    \o U32Bytes(Len(shape))
    \o Flatten([j \in 1..Len(shape) |-> PageSegmentBytes(shape[j])])

\* stroke s of a generation-6 page: a block whose body is the colour word,
\* 14 bytes, the marker 0x5C, the array length and the points
PageBlockBytes(shape, s) ==
    LET bd == ColorBytes(StrokeColorOf(s)) \o Zeros(14) \o <<POINT_MARKER>>
              \o U32Bytes(POINT_SIZE * Len(shape))
              \o Flatten([j \in 1..Len(shape) |->
                              F32Bytes(shape[j][1]) \o F32Bytes(shape[j][2]) \o Zeros(6)])
    IN  U32Bytes(Len(bd)) \o LINE_DEF_FLAG_bytes \o Zeros(4) \o bd

PageBytes(digit, shapes) ==
    IF digit = 54
    THEN HeaderBytes(54) \o Flatten([k \in 1..Len(shapes) |-> PageBlockBytes(shapes[k], k)])
    ELSE HeaderBytes(digit) \o U32Bytes(1) \o U32Bytes(Len(shapes))
         \o Flatten([k \in 1..Len(shapes) |-> PageStrokeBytes(shapes[k], k)])

PageDigits == {51, 54}
PageFile(digit, shapes) == [gen |-> "page", digit |-> digit, layers |-> <<>>, blocks |-> shapes]
PageFiles == {PageFile(d, ss) : d \in PageDigits, ss \in ShapeSeqs}

Files ==
    {StructuredFile(d, f) : d \in StructuredDigits, f \in FileShapes}
    \cup {V6File(b) : b \in UNION {[1..n -> V6BlockKinds] : n \in 0..MaxBlocks}}

FileBytes(f) ==
    IF f.gen = "v6" THEN V6Bytes(f.blocks)
    ELSE IF f.gen = "v6arrays" THEN V6ArraysBytes(f.blocks)
    ELSE IF f.gen = "page" THEN PageBytes(f.digit, f.blocks)
    ELSE StructuredBytes(f.digit, f.layers)

(***************************************************************************)
(* _parse_rm_file and the structured decoder                               *)
(***************************************************************************)
NoResult == [kind |-> "none", strokes |-> <<>>, bbox |-> <<>>, exc |-> ""]
Returned(ss, bbox) == [kind |-> "ok", strokes |-> ss, bbox |-> bbox, exc |-> ""]
Raised(e) == [kind |-> "raise", strokes |-> <<>>, bbox |-> <<>>, exc |-> e]

LocalsInit ==
    /\ version = 0 /\ n_layers = 0 /\ layer_i = 0 /\ n_strokes = 0
    /\ stroke_i = 0 /\ n_seg = 0 /\ seg_i = 0 /\ off = 0
    /\ color_id = <<0, 0>> /\ points = <<>> /\ strokes = <<>>
    /\ pos = 0 /\ i = 0 /\ body = <<>> /\ idx = 0 /\ best_n = 0
    /\ best_start = 0 /\ idx_5c = 0 /\ all_x = <<>> /\ all_y = <<>>
    /\ reads = <<>> /\ result = NoResult

ParseInit ==
    /\ file \in Files
    /\ cut \in 0..MaxCut
    /\ data = SubSeq(FileBytes(file), 1, Len(FileBytes(file)) - cut)
    /\ pc = "parse_file"
    /\ LocalsInit

V6Init ==
    /\ file \in V6ArraysFiles
    /\ cut \in V6Cuts
    /\ data = SubSeq(FileBytes(file), 1, Len(FileBytes(file)) - cut)
    /\ pc = "parse_file"
    /\ LocalsInit

ParseIdle ==
    /\ file = StructuredFile(51, <<>>) /\ cut = 0 /\ data = <<>>
    /\ pc = "idle"
    /\ LocalsInit

\* an exception leaves _parse_rm_file: nothing is returned
RaiseReturnsPartial(e) ==
    /\ pc' = "returned"
    /\ result' = Returned(strokes, <<>>)

Raise(e) ==
    /\ pc' = "raised"
    /\ result' = Raised(e)

\* lines 207-210: the stroke list after a stroke's segments are read
AppendStrokeKeepSingle(ss, pts, color) ==
    IF Len(pts) >= 1 THEN Append(ss, <<pts, color>>) ELSE ss

AppendStrokeKeepEmpty(ss, pts, color) ==
    IF Len(pts) >= 2 THEN Append(ss, <<pts, color>>)
    ELSE IF Len(pts) = 1 THEN Append(ss, <<<<pts[1], pts[1]>>, color>>)
    ELSE Append(ss, <<pts, color>>)

AppendStrokeInFront(ss, pts, color) ==
    IF Len(pts) >= 2 THEN <<<<pts, color>>>> \o ss
    ELSE IF Len(pts) = 1 THEN <<<<<<pts[1], pts[1]>>, color>>>> \o ss
    ELSE ss

AppendStroke(ss, pts, color) ==
    IF Len(pts) >= 2 THEN Append(ss, <<pts, color>>)
    ELSE IF Len(pts) = 1 THEN Append(ss, <<<<pts[1], pts[1]>>, color>>)
    ELSE ss

\* lines 217-219, 222: read the bytes, look at the version
ParseFile ==
    /\ pc = "parse_file"
    /\ LET v == ReadRmVersion(data, 0)
       IN  IF v.exc # ""
           THEN Raise(v.exc) /\ UNCHANGED version
           ELSE /\ version' = v.v
                /\ pc' = IF v.v = 6 THEN "v6_outer" ELSE "layers"
                /\ UNCHANGED result
    /\ UNCHANGED <<file, cut, data, structVars, v6Vars, strokes, reads>>

\* _read_rm_version_and_layers, and the entry of _parse_rm_strokes
ReadVersionAndLayers ==
    /\ pc = "layers"
    /\ LET v == ReadRmVersion(data, 0)
           o == 0 + 43
       IN  IF v.exc # ""
           THEN Raise(v.exc) /\ UNCHANGED <<version, n_layers, off, reads>>
           ELSE IF v.v = 6
           THEN Raise("ValueError: v6 uses _parse_rm_v6_strokes")
                /\ UNCHANGED <<version, n_layers, off, reads>>
           ELSE IF o + 4 > Len(data)
           THEN Raise("ValueError: .rm file too short")
                /\ UNCHANGED <<version, n_layers, off, reads>>
           ELSE /\ version' = v.v
                /\ n_layers' = U32At(data, o)
                /\ reads' = Append(reads, <<"data", o, S_LAYER_size>>)
                /\ off' = o + 4
                /\ pc' = "layer_loop"
                /\ UNCHANGED result
    /\ layer_i' = 0
    /\ strokes' = <<>>
    /\ UNCHANGED <<file, cut, data, n_strokes, stroke_i, n_seg, seg_i, color_id, points, v6Vars>>

\* for _ in range(n_layers): read the layer's stroke count; after the
\* last layer, return (strokes, off), of which _parse_rm_file returns
\* (strokes, None)
LayerLoop ==
    /\ pc = "layer_loop"
    /\ IF layer_i >= n_layers
       THEN /\ pc' = "returned"
            /\ result' = Returned(strokes, <<>>)
            /\ UNCHANGED <<layer_i, n_strokes, stroke_i, off, reads>>
       ELSE /\ reads' = Append(reads, <<"data", off, S_LAYER_size>>)
            /\ IF ~Fits(data, off, S_LAYER_size)
               THEN Raise("struct.error") /\ UNCHANGED <<layer_i, n_strokes, stroke_i, off>>
               ELSE /\ n_strokes' = U32At(data, off)
                    /\ off' = off + 4
                    /\ layer_i' = layer_i + 1
                    /\ stroke_i' = 0
                    /\ pc' = "stroke_loop"
                    /\ UNCHANGED result
    /\ UNCHANGED <<file, cut, data, version, n_layers, n_seg, seg_i, color_id, points,
                   strokes, v6Vars>>

\* for _ in range(n_strokes): read the stroke record
StrokeLoop ==
    /\ pc = "stroke_loop"
    /\ IF stroke_i >= n_strokes
       THEN /\ pc' = "layer_loop"
            /\ UNCHANGED <<stroke_i, n_seg, seg_i, off, color_id, points, reads, result>>
       ELSE /\ reads' = Append(reads, <<"data", off, StrokeSize(version)>>)
            /\ IF ~Fits(data, off, StrokeSize(version))
               THEN Raise("struct.error")
                    /\ UNCHANGED <<stroke_i, n_seg, seg_i, off, color_id, points>>
               ELSE /\ color_id' = ColorAt(data, off + 4)
                    /\ n_seg' = U32At(data, off + SegCountOffset(version))
                    /\ off' = off + StrokeSize(version)
                    /\ stroke_i' = stroke_i + 1
                    /\ points' = <<>>
                    /\ seg_i' = 0
                    /\ pc' = "seg_loop"
                    /\ UNCHANGED result
    /\ UNCHANGED <<file, cut, data, version, n_layers, layer_i, n_strokes, strokes, v6Vars>>

\* for _ in range(n_seg): read a segment, keep its x and y; after the
\* last one, add the stroke to the list
SegLoop ==
    /\ pc = "seg_loop"
    /\ IF seg_i >= n_seg
       THEN /\ strokes' = AppendStroke(strokes, points, color_id)
            /\ pc' = "stroke_loop"
            /\ UNCHANGED <<seg_i, off, points, reads, result>>
       ELSE /\ reads' = Append(reads, <<"data", off, S_SEGMENT_size>>)
            /\ IF ~Fits(data, off, S_SEGMENT_size)
               THEN Raise("struct.error") /\ UNCHANGED <<seg_i, off, points, strokes>>
               ELSE /\ points' = Append(points, <<F32At(data, off), F32At(data, off + 4)>>)
                    /\ off' = off + S_SEGMENT_size
                    /\ seg_i' = seg_i + 1
                    /\ UNCHANGED <<pc, result, strokes>>
    /\ UNCHANGED <<file, cut, data, version, n_layers, layer_i, n_strokes,
                   stroke_i, n_seg, color_id, v6Vars>>

(***************************************************************************)
(* The heuristic decoder                                                   *)
(***************************************************************************)
\* bytes.find(pat, start): the lowest offset >= start at which pat lies,
\* or -1
Find(buf, pat, start) ==
    LET at == {o \in start..(Len(buf) - Len(pat)) : SubSeq(buf, o + 1, o + Len(pat)) = pat}
    IN  IF at = {} THEN -1 ELSE CHOOSE o \in at : \A q \in at : o <= q

\* min(s) and max(s) as Python computes them: the first item, replaced by
\* each later item that compares below (above) it
RECURSIVE PyMin(_)
PyMin(s) ==
    IF Len(s) = 1 THEN s[1]
    ELSE LET m == PyMin(SubSeq(s, 1, Len(s) - 1))
         IN  IF FLt(s[Len(s)], m) THEN s[Len(s)] ELSE m
RECURSIVE PyMax(_)
PyMax(s) ==
    IF Len(s) = 1 THEN s[1]
    ELSE LET m == PyMax(SubSeq(s, 1, Len(s) - 1))
         IN  IF FLt(m, s[Len(s)]) THEN s[Len(s)] ELSE m

MAX_BODY == 2 * 1024 * 1024
half_w == RM2_WIDTH \div 2

\* _v6_line_def_color
V6LineDefColorClosedBound(buf, at_5c) ==
    IF at_5c <= 18 THEN <<0, 0>> ELSE ColorAt(buf, at_5c - 18)

V6LineDefColor(buf, at_5c) == IF at_5c < 18 THEN <<0, 0>> ELSE ColorAt(buf, at_5c - 18)

\* lines 159-165: the best_n points at best_start, x shifted by half_w
V6Points(buf, start, n) ==
    [k \in 1..n |->
        <<FAdd(F32At(buf, start + (k - 1) * POINT_SIZE), half_w),
          F32At(buf, start + (k - 1) * POINT_SIZE + 4)>>]

\* lines 168-172
V6ReturnEmptyBox(ss, xs, ys) ==
    IF ss = <<>>
    THEN Returned(<<>>, <<0, 0, 0, 0>>)
    ELSE Returned(ss, <<PyMin(xs), PyMin(ys), PyMax(xs), PyMax(ys)>>)

V6Return(ss, xs, ys) ==
    IF ss = <<>>
    THEN Returned(<<>>, <<0, 0, RM2_WIDTH, RM2_HEIGHT>>)
    ELSE Returned(ss, <<PyMin(xs), PyMin(ys), PyMax(xs), PyMax(ys)>>)

\* lines 128, 132, 136, 155: a marker that is dropped moves the scan one byte on
SkipMarkerEndsScan(at) == Len(data)

SkipMarkerStays(at) == at

SkipMarker(at) == at + 1

\* one turn of the outer loop (lines 122-141): the next marker, or the
\* return once there is none
V6Outer ==
    /\ pc = "v6_outer"
    /\ LET at == Find(data, LINE_DEF_FLAG_bytes, pos)
           len_body == U32At(data, at - 4)
           end == at + 4 + 4 + len_body
       IN  IF at < 0
           THEN /\ pc' = "returned"
                /\ result' = V6Return(strokes, all_x, all_y)
                /\ UNCHANGED <<pos, i, body, idx, best_n, best_start, idx_5c, reads>>
           ELSE IF at < 4
           THEN /\ pos' = SkipMarker(at)
                /\ i' = at
                /\ UNCHANGED <<pc, result, body, idx, best_n, best_start, idx_5c, reads>>
           ELSE /\ i' = at
                /\ reads' = Append(reads, <<"data", at - 4, 4>>)
                /\ UNCHANGED result
                /\ IF len_body <= 0 \/ len_body > MAX_BODY \/ end > Len(data)
                   THEN /\ pos' = SkipMarker(at)
                        /\ UNCHANGED <<pc, body, idx, best_n, best_start, idx_5c>>
                   ELSE /\ body' = Slice(data, at + 8, end)
                        /\ idx' = 0
                        /\ best_n' = 0
                        /\ best_start' = -1
                        /\ idx_5c' = -1
                        /\ pc' = "v6_inner"
                        /\ UNCHANGED pos
    /\ UNCHANGED <<file, cut, data, version, structVars, strokes, all_x, all_y>>

\* line 144: the inner loop ends when no 0x5C is left or the one found
\* has no room for a length and one point after it
V6InnerStops(at, blen) == at < 0 \/ at + 5 + POINT_SIZE > blen

\* line 148: the array declared at `at` is a whole number of points, at
\* least one, and lies in the body
V6AcceptsUnfit(n_pts, len_pt, at, blen) ==
    n_pts > 0 /\ len_pt % POINT_SIZE = 0

V6Accepts(n_pts, len_pt, at, blen) ==
    n_pts > 0 /\ len_pt % POINT_SIZE = 0 /\ at + 5 + len_pt <= blen

\* line 149: an accepted array replaces the best one so far
V6ImprovesFirstWins(n_pts, best) == best = 0

V6ImprovesLastWins(n_pts, best) == n_pts >= best

V6Improves(n_pts, best) == n_pts > best

\* a read of the body, as the trace holds it: the offset in the body, the
\* size, the body's offset in the data and the body's length
BodyRead(offset, size) == <<"body", offset, size, i + 8, Len(body)>>

\* one turn of the inner loop (lines 142-153): the next 0x5C of the body
V6Inner ==
    /\ pc = "v6_inner"
    /\ LET at == Find(body, <<POINT_MARKER>>, idx)
           len_pt == U32At(body, at + 1)
           n_pts == len_pt \div POINT_SIZE
       IN  IF V6InnerStops(at, Len(body))
           THEN /\ idx' = at
                /\ pc' = "v6_emit"
                /\ UNCHANGED <<best_n, best_start, idx_5c, reads, result>>
           ELSE /\ reads' = Append(reads, BodyRead(at + 1, 4))
                /\ IF ~Fits(body, at + 1, 4)
                   THEN Raise("struct.error") /\ UNCHANGED <<idx, best_n, best_start, idx_5c>>
                   ELSE /\ IF /\ V6Accepts(n_pts, len_pt, at, Len(body))
                              /\ V6Improves(n_pts, best_n)
                           THEN /\ best_n' = n_pts
                                /\ best_start' = at + 5
                                /\ idx_5c' = at
                           ELSE UNCHANGED <<best_n, best_start, idx_5c>>
                        /\ idx' = at + 1
                        /\ UNCHANGED <<pc, result>>
    /\ UNCHANGED <<file, cut, data, version, structVars, strokes, all_x, all_y,
                   pos, i, body>>

\* the reads of lines 157-160 for the array at best_start: the colour,
\* when the marker has 18 bytes before it, then point after point
V6EmitReads ==
    (IF idx_5c < 18 THEN <<>> ELSE <<BodyRead(idx_5c - 18, 4)>>)
    \o [k \in 1..best_n |-> BodyRead(best_start + (k - 1) * POINT_SIZE, 8)]

\* the first of these reads that the body does not hold, 0 when it holds all
FirstUnfit(rs) ==
    LET bad == {k \in 1..Len(rs) : ~Fits(body, rs[k][2], rs[k][3])}
    IN  IF bad = {} THEN 0 ELSE CHOOSE k \in bad : \A q \in bad : k <= q

\* lines 154-167: drop the block, or add its stroke
V6Emit ==
    /\ pc = "v6_emit"
    /\ IF best_start < 0 \/ idx_5c < 0
       THEN /\ pos' = SkipMarker(i)
            /\ pc' = "v6_outer"
            /\ UNCHANGED <<strokes, all_x, all_y, reads, result>>
       ELSE IF FirstUnfit(V6EmitReads) # 0
       THEN /\ reads' = reads \o SubSeq(V6EmitReads, 1, FirstUnfit(V6EmitReads))
            /\ Raise("struct.error")
            /\ UNCHANGED <<strokes, all_x, all_y, pos>>
       ELSE LET pts == V6Points(body, best_start, best_n)
            IN  /\ strokes' = Append(strokes, <<pts, V6LineDefColor(body, idx_5c)>>)
                /\ all_x' = all_x \o [k \in 1..best_n |-> pts[k][1]]
                /\ all_y' = all_y \o [k \in 1..best_n |-> pts[k][2]]
                /\ reads' = reads \o V6EmitReads
                /\ pos' = i + 1
                /\ pc' = "v6_outer"
                /\ UNCHANGED result
    /\ UNCHANGED <<file, cut, data, version, structVars, i, body, idx, best_n,
                   best_start, idx_5c>>

(***************************************************************************)
(* render_rm_to_png                                                        *)
(***************************************************************************)
\* an optional int argument
NoArg == [given |-> FALSE, v |-> 0]
Arg(n) == [given |-> TRUE, v |-> n]

\* lines 257-258: the argument if it is not None, else the sidecar's value
CanvasDimIgnoresArg(arg, base) == base

CanvasDim(arg, base) == IF arg.given THEN arg.v ELSE base

WHITE == <<255, 255, 255>>
NoImage == [kind |-> "none", w |-> 0, h |-> 0, bg |-> WHITE, px |-> [q \in {} |-> WHITE]]
\* Image.new("RGB", (w, h), color)
NewImage(w, h, color) ==
    [kind |-> "open", w |-> w, h |-> h, bg |-> color, px |-> [q \in {} |-> color]]

\* max(0, min(dim - 1, v)): min keeps dim - 1 unless v compares below it,
\* max keeps 0 unless that compares above it
ClampLowerOnly(v, dim) == IF FLt(0, v) THEN v ELSE 0

Clamp(v, dim) ==
    LET m == IF FLt(v, dim - 1) THEN v ELSE dim - 1
    IN  IF FLt(0, m) THEN m ELSE 0

\* max_x - min_x or 1, `one` being the number 1 in the unit of lo and hi
SpanOrAtLeastOne(lo, hi, one) ==
    IF FLt(FSub(hi, lo), one) THEN one ELSE FSub(hi, lo)

SpanOr(lo, hi, one) == IF FSub(hi, lo) = 0 THEN one ELSE FSub(hi, lo)

SpanOf(lo, hi) == SpanOr(lo, hi, 1)

\* (x - lo) / span * m, then the clamp and, when the point is drawn, int()
\* (over the coordinates the page files hold, the binary64 result has the
\* integer part of the exact quotient)
ScaleCoord(x, lo, span, dim) ==
    LET d == FSub(x, lo)
        m == dim - 1
        v == IF IsNaN(d) \/ IsNaN(span) THEN NaN
             ELSE IF IsInf(span) THEN (IF IsInf(d) THEN NaN ELSE 0)
             ELSE IF IsInf(d) THEN (IF m = 0 THEN NaN ELSE IF m > 0 THEN d ELSE -d)
             ELSE (d * m) \div span
    IN  Clamp(v, dim)

\* _scale_v6_strokes_to_canvas
ScaleV6StrokesToCanvas(strokes_raw, bbox, cw, ch) ==
    [k \in 1..Len(strokes_raw) |->
        <<[j \in 1..Len(strokes_raw[k][1]) |->
              <<ScaleCoord(strokes_raw[k][1][j][1], bbox[1], SpanOf(bbox[1], bbox[3]), cw),
                ScaleCoord(strokes_raw[k][1][j][2], bbox[2], SpanOf(bbox[2], bbox[4]), ch)>>],
          strokes_raw[k][2]>>]

\* lines 272-279: int() of every coordinate, in order; the exception of
\* the first that is no number, if any
CoordsInOrder(ss) ==
    Flatten([k \in 1..Len(ss) |-> Flatten([j \in 1..Len(ss[k][1]) |-> ss[k][1][j]])])

ClipError(ss) ==
    LET cs == CoordsInOrder(ss)
        bad == {k \in 1..Len(cs) : ~IsFinite(cs[k])}
        first == CHOOSE k \in bad : \A q \in bad : k <= q
    IN  IF bad = {} THEN ""
        ELSE IF IsNaN(cs[first]) THEN "ValueError" ELSE "OverflowError"

ClipStrokes(ss, cw, ch) ==
    LET clip(k) == [j \in 1..Len(ss[k][1]) |->
                       <<Clamp(ss[k][1][j][1], cw), Clamp(ss[k][1][j][2], ch)>>]
        kept == SelectSeq([k \in 1..Len(ss) |-> k], LAMBDA k : Len(ss[k][1]) >= 2)
    IN  [q \in 1..Len(kept) |-> <<clip(kept[q]), ss[kept[q]][2]>>]

\* draw.line([a, b], fill, width=2): the pixels of the image it covers.
\* The line steps along its longer axis from a to b and is two pixels
\* thick across it.
Abs(n) == IF n < 0 THEN -n ELSE n
LinePixels(a, b, w, h) ==
    LET dx == b[1] - a[1]
        dy == b[2] - a[2]
        n == IF Abs(dx) > Abs(dy) THEN Abs(dx) ELSE Abs(dy)
        step(t, d) == IF n = 0 THEN 0 ELSE (2 * t * d + n) \div (2 * n)
        core == {<<a[1] + step(t, dx), a[2] + step(t, dy)>> : t \in 0..n}
        thick == core \cup {IF Abs(dy) > Abs(dx) THEN <<c[1] + 1, c[2]>>
                            ELSE <<c[1], c[2] + 1>> : c \in core}
    IN  {c \in thick : c[1] >= 0 /\ c[1] < w /\ c[2] >= 0 /\ c[2] < h}

\* the pixels a stroke's lines cover (lines 287-288)
StrokePixels(pts, w, h) ==
    UNION {LinePixels(pts[j], pts[j + 1], w, h) : j \in 1..(Len(pts) - 1)}

\* drawing on the image: the covered pixels take the fill
PaintKeepsFirst(px, cover, fill) ==
    [q \in DOMAIN px \cup cover |-> IF q \in DOMAIN px THEN px[q] ELSE fill]

Paint(px, cover, fill) ==
    [q \in DOMAIN px \cup cover |-> IF q \in cover THEN fill ELSE px[q]]

\* The rescaling of one coordinate on its own, the coordinate and the box
\* edges counted in steps of 1 / StepsPerOne so that a span strictly between
\* 0 and 1 can be written.
StepsPerOne == 2
MaxCoord == 6
ScaleDims == {1, 2, 5, 8}

NoScale == [x |-> 0, lo |-> 0, hi |-> 0, dim |-> 1]

ScaleInit ==
    /\ scaleIn \in {in \in [x : 0..MaxCoord, lo : 0..MaxCoord, hi : 0..MaxCoord, dim : ScaleDims] :
                        in.lo <= in.hi}
    /\ scaleOut = -1

ScaleIdle == scaleIn = NoScale /\ scaleOut = -1

\* lines 234-235, 238-239 for one axis
Rescale ==
    /\ scaleOut = -1
    /\ scaleOut' = ScaleCoord(scaleIn.x, scaleIn.lo,
                              SpanOr(scaleIn.lo, scaleIn.hi, StepsPerOne), scaleIn.dim)
    /\ UNCHANGED scaleIn

RenderLocalsInit ==
    /\ canvas_w = 0 /\ canvas_h = 0 /\ drawn = <<>> /\ draw_k = 0
    /\ lines = <<>> /\ image = NoImage

\* the sidecars a page is rendered with: none, one with both fields (8 by
\* 7), one whose JSON is a list
PageSidecars ==
    {Sidecar("none", "text", "object", JAbsent, JAbsent),
     Sidecar("file", "text", "object", JNum(16), JNum(14)),
     Sidecar("file", "text", "array", JAbsent, JAbsent)}

RenderInit ==
    /\ file \in PageFiles
    /\ cut = 0
    /\ data = FileBytes(file)
    /\ sidecar \in PageSidecars /\ dimsOut = NoDims
    /\ width \in {NoArg, Arg(6)}
    /\ height \in {NoArg, Arg(5)}
    /\ pc = "render_start"
    /\ LocalsInit
    /\ RenderLocalsInit

RenderIdle == width = NoArg /\ height = NoArg /\ RenderLocalsInit

\* lines 256-258: the sidecar's dimensions, the canvas
RenderStart ==
    /\ pc = "render_start"
    /\ dimsOut' = GetPageDimensionsFromContent(sidecar)
    /\ IF dimsOut'.kind = "raise"
       THEN Raise(dimsOut'.exc) /\ UNCHANGED <<canvas_w, canvas_h>>
       ELSE /\ canvas_w' = CanvasDim(width, dimsOut'.w)
            /\ canvas_h' = CanvasDim(height, dimsOut'.h)
            /\ pc' = "parse_file"
            /\ UNCHANGED result
    /\ UNCHANGED <<file, cut, data, version, structVars, v6Vars, strokes, reads,
                   sidecar, width, height, drawn, draw_k, lines, image>>

\* line 266: the content and its margin do not fit the canvas height
GrowsBeyondMarginOnly(content_h, ch) == FLt(0, content_h) /\ FLt(FAdd(ch, 40), content_h)

GrowsWithoutGuard(content_h, ch) == FLt(ch, FAdd(content_h, 40))

Grows(content_h, ch) == FLt(0, content_h) /\ FLt(ch, FAdd(content_h, 40))

\* lines 262-281: on the heuristic path grow the canvas and rescale, on
\* the structured path clip; then open the image
RenderPrepare ==
    /\ pc = "returned"
    /\ IF result.bbox # <<>>
       THEN LET content_h == FSub(result.bbox[4], result.bbox[2])
                grows == Grows(content_h, canvas_h)
            IN  IF grows /\ IsInf(content_h)
                THEN Raise("OverflowError") /\ UNCHANGED <<canvas_h, drawn, image>>
                ELSE /\ canvas_h' = IF grows THEN FAdd(content_h, 40) ELSE canvas_h
                     /\ drawn' = ScaleV6StrokesToCanvas(result.strokes, result.bbox,
                                                        canvas_w, canvas_h')
                     /\ IF canvas_w < 0 \/ canvas_h' < 0
                        THEN Raise("ValueError") /\ UNCHANGED image
                        ELSE /\ image' = NewImage(canvas_w, canvas_h', WHITE)
                             /\ pc' = "draw"
                             /\ UNCHANGED result
       ELSE IF ClipError(result.strokes) # ""
       THEN Raise(ClipError(result.strokes)) /\ UNCHANGED <<canvas_h, drawn, image>>
       ELSE /\ drawn' = ClipStrokes(result.strokes, canvas_w, canvas_h)
            /\ UNCHANGED canvas_h
            /\ IF canvas_w < 0 \/ canvas_h < 0
               THEN Raise("ValueError") /\ UNCHANGED image
               ELSE /\ image' = NewImage(canvas_w, canvas_h, WHITE)
                    /\ pc' = "draw"
                    /\ UNCHANGED result
    /\ draw_k' = 0
    /\ UNCHANGED <<file, cut, data, version, structVars, v6Vars, strokes, reads,
                   dimsVars, width, height, canvas_w, lines>>

\* lines 283-291: one turn of the drawing loop; after the last stroke,
\* save the image
RenderDraw ==
    /\ pc = "draw"
    /\ IF draw_k >= Len(drawn)
       THEN /\ image' = [image EXCEPT !.kind = "saved"]
            /\ pc' = "saved"
            /\ UNCHANGED <<draw_k, lines>>
       ELSE LET pts == drawn[draw_k + 1][1]
                rgb == StrokeColorToRgb(drawn[draw_k + 1][2])
            IN  /\ draw_k' = draw_k + 1
                /\ UNCHANGED pc
                /\ IF Len(pts) < 2
                   THEN UNCHANGED <<lines, image>>
                   ELSE /\ lines' = lines \o [j \in 1..(Len(pts) - 1) |->
                                                 <<draw_k + 1, pts[j], pts[j + 1], rgb,
                                                   LinePixels(pts[j], pts[j + 1],
                                                              image.w, image.h)>>]
                        /\ image' = [image EXCEPT !.px =
                                        Paint(image.px,
                                              StrokePixels(pts, image.w, image.h), rgb)]
    /\ UNCHANGED <<file, cut, data, version, structVars, v6Vars, strokes, reads, result,
                   dimsVars, width, height, canvas_w, canvas_h, drawn>>

RunIdle ==
    /\ xochitl = <<>> /\ found = <<>> /\ nb_k = 0 /\ page_paths = <<>> /\ ocr_i = 0
    /\ written = <<>> /\ ocr_calls = <<>> /\ run = "none"

NotebookIdle ==
    /\ notebook = <<>> /\ page_k = 0 /\ out_files = <<>> /\ paths = <<>>
    /\ call = "none"

(***************************************************************************)
(* render_notebook_pages                                                   *)
(***************************************************************************)
MaxPages == 2

\* a page of a notebook: its stroke file (rm "none": rm_path is None or is
\* not a file), the bytes the file has lost at its end, and its preview
\* (thumb "none": thumbnail_path is None or is not a file; "unreadable": it
\* is a file that shutil.copy cannot copy)
Page(rm, f, c, thumb) == [rm |-> rm, file |-> f, cut |-> c, thumb |-> thumb]

\* the stroke files of the pages: none, a structured and two heuristic
\* pages that render, a structured page with a NaN coordinate, a structured
\* page cut short
PageRms ==
    {<<"none", PageFile(51, <<>>), 0>>,
     <<"file", PageFile(51, <<<<<<-50, 3>>, <<250, 120>>>>>>), 0>>,
     <<"file", PageFile(54, <<<<<<-50, 3>>, <<250, 120>>>>>>), 0>>,
     <<"file", PageFile(54, <<<<<<0, 0>>, <<100, 300>>>>>>), 0>>,
     <<"file", PageFile(51, <<<<<<NaN, 60>>, <<250, 120>>>>>>), 0>>,
     <<"file", PageFile(51, <<<<<<-50, 3>>, <<250, 120>>>>>>), 1>>}

Thumbs == {"none", "file", "unreadable"}

Pages == {Page(r[1], r[2], r[3], t) : r \in PageRms, t \in Thumbs}

Notebooks == UNION {[1..n -> Pages] : n \in 0..MaxPages}

\* the sidecars of a notebook: none, one with both fields (8 by 7)
NotebookSidecars ==
    {Sidecar("none", "text", "object", JAbsent, JAbsent),
     Sidecar("file", "text", "object", JNum(16), JNum(14))}

\* what is on disk at a page's output path
Rendered(index, im) == [index |-> index, kind |-> "image", image |-> im]
Copied(index) == [index |-> index, kind |-> "copy", image |-> NoImage]

NotebookInit ==
    /\ notebook \in Notebooks
    /\ sidecar \in NotebookSidecars /\ dimsOut = NoDims
    /\ page_k = 0 /\ out_files = <<>> /\ paths = <<>>
    /\ call = "running"
    /\ file = PageFile(51, <<>>) /\ cut = 0 /\ data = <<>>
    /\ pc = "notebook_start"
    /\ LocalsInit
    /\ RenderIdle

\* lines 300-302: the output directory, the empty list
NotebookStart ==
    /\ pc = "notebook_start"
    /\ paths' = <<>>
    /\ pc' = "next_page"
    /\ UNCHANGED <<file, cut, data, version, structVars, v6Vars, strokes, reads, result,
                   dimsVars, renderVars, notebook, page_k, out_files, call>>

\* shutil.copy of the page's preview to its output path (lines 315-316 and
\* 318-319): the copy and its entry, or the copy's exception, which nothing
\* in render_notebook_pages catches
CopyThumbnail(page, index) ==
    IF page.thumb = "unreadable"
    THEN /\ call' = "aborted"
         /\ pc' = "aborted"
         /\ UNCHANGED <<out_files, paths, page_k>>
    ELSE /\ out_files' = Append(out_files, Copied(index))
         /\ paths' = Append(paths, index)
         /\ page_k' = page_k + 1
         /\ pc' = "next_page"
         /\ UNCHANGED call

\* lines 116-117 (and 189, 202, 262-263): the lists of a call start empty,
\* whatever an earlier call has left in its own
KeptFromLastCall(old) == old

StartsEmpty(old) == <<>>

\* lines 303-306, 317-320: the next page: render it if its stroke file is
\* a file, else copy its preview if that is a file, else nothing; after
\* the last page return the list
NextPage ==
    /\ pc = "next_page"
    /\ IF page_k >= Len(notebook)
       THEN /\ call' = "returned"
            /\ pc' = "done"
            /\ UNCHANGED <<file, cut, data, out_files, paths, page_k>>
       ELSE LET page == notebook[page_k + 1]
            IN  IF page.rm = "file"
                THEN /\ file' = page.file
                     /\ cut' = page.cut
                     /\ data' = SubSeq(FileBytes(page.file), 1,
                                       Len(FileBytes(page.file)) - page.cut)
                     /\ pc' = "render_start"
                     /\ UNCHANGED <<out_files, paths, page_k, call>>
                ELSE IF page.thumb # "none"
                THEN CopyThumbnail(page, page_k) /\ UNCHANGED <<file, cut, data>>
                ELSE /\ page_k' = page_k + 1
                     /\ UNCHANGED <<file, cut, data, pc, out_files, paths, call>>
    /\ version' = 0 /\ n_layers' = 0 /\ layer_i' = 0 /\ n_strokes' = 0
    /\ stroke_i' = 0 /\ n_seg' = 0 /\ seg_i' = 0 /\ off' = 0
    /\ color_id' = <<0, 0>> /\ points' = <<>> /\ strokes' = <<>>
    /\ pos' = 0 /\ i' = 0 /\ body' = <<>> /\ idx' = 0 /\ best_n' = 0
    /\ best_start' = 0 /\ idx_5c' = 0
    /\ all_x' = StartsEmpty(all_x) /\ all_y' = StartsEmpty(all_y)
    /\ reads' = <<>> /\ result' = NoResult
    /\ canvas_w' = 0 /\ canvas_h' = 0 /\ drawn' = <<>> /\ draw_k' = 0
    /\ lines' = <<>> /\ image' = NoImage
    /\ dimsOut' = NoDims
    /\ UNCHANGED <<sidecar, width, height, notebook>>

\* line 312: render_rm_to_png returned, the page's path joins the list
PageRendered ==
    /\ pc = "saved"
    /\ out_files' = Append(out_files, Rendered(page_k, image))
    /\ paths' = Append(paths, page_k)
    /\ page_k' = page_k + 1
    /\ pc' = "next_page"
    /\ UNCHANGED <<file, cut, data, version, structVars, v6Vars, strokes, reads, result,
                   dimsVars, renderVars, notebook, call>>

\* lines 313-316: render_rm_to_png raised an Exception: the preview is
\* copied if it is a file
PageFailed ==
    /\ pc = "raised"
    /\ LET page == notebook[page_k + 1]
       IN  IF page.thumb # "none"
           THEN CopyThumbnail(page, page_k)
           ELSE /\ page_k' = page_k + 1
                /\ pc' = "next_page"
                /\ UNCHANGED <<out_files, paths, call>>
    /\ UNCHANGED <<file, cut, data, version, structVars, v6Vars, strokes, reads, result,
                   dimsVars, renderVars, notebook>>

(***************************************************************************)
(* Notebook mode: list_notebooks, _safe_notebook_name, _run_notebook_mode  *)
(***************************************************************************)
MaxNotebooks == 2
MaxEntries == 2
NAME_LIMIT == 200

\* names are sequences of characters
Forbidden == {"/", "\\", ":", "*", "?", "\"", "<", ">", "|"}
Whitespace == {" ", "\t", "\n"}

RECURSIVE StripLeft(_)
StripLeft(s) ==
    IF s # <<>> /\ Head(s) \in Whitespace THEN StripLeft(Tail(s)) ELSE s

RECURSIVE StripRight(_)
StripRight(s) ==
    IF s # <<>> /\ s[Len(s)] \in Whitespace
    THEN StripRight(SubSeq(s, 1, Len(s) - 1)) ELSE s

\* re.sub(r"\s+", "_", s)
RECURSIVE UnderscoreRuns(_)
UnderscoreRuns(s) ==
    IF s = <<>> THEN <<>>
    ELSE IF Head(s) \in Whitespace
    THEN <<"_">> \o UnderscoreRuns(StripLeft(s))
    ELSE <<Head(s)>> \o UnderscoreRuns(Tail(s))

\* _safe_notebook_name
SafeNotebookName(name) ==
    LET kept == SelectSeq(name, LAMBDA c : c \notin Forbidden)
        stripped == StripRight(StripLeft(kept))
        named == IF stripped = <<>> THEN <<"u", "n", "n", "a", "m", "e", "d">> ELSE stripped
        joined == UnderscoreRuns(named)
    IN  SubSeq(joined, 1, IF Len(joined) < NAME_LIMIT THEN Len(joined) ELSE NAME_LIMIT)

\* the visible names of the data directory
VisibleNames == {<<"a">>, <<"a", "/">>, <<" ", "?">>, <<"b", " ", " ", "c">>}

\* an entry of a notebook's page list: one with no id, a page that gives an
\* output file (its stroke file renders or its preview is copied), a page
\* that gives none, a page whose preview cannot be copied
EntryKinds == {"noid", "output", "nothing", "unreadable"}

\* a document of the data directory: what its metadata and content files
\* say (type "other": not a notebook, or a file that cannot be read)
Document(type, name, entries) == [type |-> type, name |-> name, entries |-> entries]

Documents ==
    {Document("other", <<"a">>, <<>>)}
    \cup {Document("notebook", nm, es) :
              nm \in VisibleNames,
              es \in UNION {[1..n -> EntryKinds] : n \in 0..MaxEntries}}

\* enumerate(pages_list): the k-th entry has index k - 1
PageIndex(k) == k - 1

\* lines 68-85 of list_notebooks: the pages of a document, entries with no
\* id left out, each under its place in the page list
PagesOf(entries) ==
    LET places == [k \in 1..Len(entries) |-> k]
        kept == SelectSeq(places, LAMBDA k : entries[k] # "noid")
    IN  [j \in 1..Len(kept) |-> [index |-> PageIndex(kept[j]), kind |-> entries[kept[j]]]]

\* list_notebooks: the documents that are notebooks, in the order of the
\* directory listing, uuid being the document's place in it
ListNotebooksOf(docs) ==
    LET places == [k \in 1..Len(docs) |-> k]
        kept == SelectSeq(places, LAMBDA k : docs[k].type = "notebook")
    IN  [j \in 1..Len(kept) |->
            [uuid |-> kept[j], visible_name |-> docs[kept[j]].name,
             pages |-> PagesOf(docs[kept[j]].entries)]]

\* out_pages_dir / f"page_{page.index}.png" under output_root / safe_name / "pages"
OutPath(safe_name, index) == [dir |-> safe_name, stem |-> <<"page", index>>]

\* f"page_{i}" with i the path's place in the returned list
CacheKey(place, path) == <<"page", place>>

RunInit ==
    /\ xochitl \in UNION {[1..n -> Documents] : n \in 0..MaxNotebooks}
    /\ found = <<>> /\ nb_k = 0 /\ page_paths = <<>> /\ ocr_i = 0
    /\ written = <<>> /\ ocr_calls = <<>>
    /\ run = "list"

\* main.py line 226-232: list_notebooks, nothing to do when it finds none
ListNotebooks ==
    /\ run = "list"
    /\ found' = ListNotebooksOf(xochitl)
    /\ run' = IF found' = <<>> THEN "done" ELSE "notebook"
    /\ UNCHANGED <<xochitl, nb_k, page_paths, ocr_i, written, ocr_calls>>

\* the pages render_notebook_pages gets to: all, or those up to the first
\* whose preview cannot be copied
PagesReached(pages) ==
    LET stops == {k \in 1..Len(pages) : pages[k].kind = "unreadable"}
    IN  IF stops = {} THEN pages
        ELSE SubSeq(pages, 1, (CHOOSE k \in stops : \A m \in stops : k <= m) - 1)

\* main.py lines 242-257: the notebook's directories, render_notebook_pages
\* (render.py lines 301-321), the next notebook when no page gave a file
RenderNotebook ==
    /\ run = "notebook" /\ nb_k < Len(found)
    /\ LET nb == found[nb_k + 1]
           safe_name == SafeNotebookName(nb.visible_name)
           reached == PagesReached(nb.pages)
           outs == SelectSeq(reached, LAMBDA pg : pg.kind = "output")
           outPaths == [j \in 1..Len(outs) |-> OutPath(safe_name, outs[j].index)]
       IN  /\ written' = written \o [j \in 1..Len(outs) |->
                                        [uuid |-> nb.uuid, index |-> outs[j].index,
                                         path |-> outPaths[j]]]
           /\ IF Len(reached) < Len(nb.pages)
              THEN run' = "raised" /\ UNCHANGED <<page_paths, nb_k, ocr_i>>
              ELSE IF outPaths = <<>>
              THEN UNCHANGED <<run, page_paths, ocr_i>> /\ nb_k' = nb_k + 1
              ELSE run' = "ocr" /\ page_paths' = outPaths /\ ocr_i' = 0 /\ UNCHANGED nb_k
    /\ UNCHANGED <<xochitl, found, ocr_calls>>

\* main.py lines 260-270: ocr_image on the next path of the list, under
\* the cache key of its place in the list
OcrPage ==
    /\ run = "ocr" /\ ocr_i < Len(page_paths)
    /\ ocr_calls' = Append(ocr_calls, [uuid |-> found[nb_k + 1].uuid,
                                        image |-> page_paths[ocr_i + 1],
                                        key |-> CacheKey(ocr_i, page_paths[ocr_i + 1])])
    /\ ocr_i' = ocr_i + 1
    /\ UNCHANGED <<xochitl, found, nb_k, page_paths, written, run>>

\* the notebook's pages are read, the next notebook
EndNotebook ==
    /\ run = "ocr" /\ ocr_i = Len(page_paths)
    /\ nb_k' = nb_k + 1
    /\ run' = "notebook"
    /\ UNCHANGED <<xochitl, found, page_paths, ocr_i, written, ocr_calls>>

\* the loop over the notebooks is over
RunReturns ==
    /\ run = "notebook" /\ nb_k = Len(found)
    /\ run' = "done"
    /\ UNCHANGED <<xochitl, found, nb_k, page_paths, ocr_i, written, ocr_calls>>

(***************************************************************************)
(* Specifications                                                          *)
(***************************************************************************)
\* _parse_rm_file on a written file, cut short or not
Init == ParseInit /\ ColorIdle /\ DimsIdle /\ VerIdle /\ RenderIdle /\ NotebookIdle /\ ScaleIdle /\ RunIdle

Next ==
    \/ ParseFile /\ UNCHANGED <<toolVars, colorVars, dimsVars, verVars, pageVars>>
    \/ ReadVersionAndLayers /\ UNCHANGED <<toolVars, colorVars, dimsVars, verVars, pageVars>>
    \/ LayerLoop /\ UNCHANGED <<toolVars, colorVars, dimsVars, verVars, pageVars>>
    \/ StrokeLoop /\ UNCHANGED <<toolVars, colorVars, dimsVars, verVars, pageVars>>
    \/ SegLoop /\ UNCHANGED <<toolVars, colorVars, dimsVars, verVars, pageVars>>
    \/ V6Outer /\ UNCHANGED <<toolVars, colorVars, dimsVars, verVars, pageVars>>
    \/ V6Inner /\ UNCHANGED <<toolVars, colorVars, dimsVars, verVars, pageVars>>
    \/ V6Emit /\ UNCHANGED <<toolVars, colorVars, dimsVars, verVars, pageVars>>

Spec == Init /\ [][Next]_vars

\* _parse_rm_file on a generation-6 file of several arrays per block
InitV6 == V6Init /\ ColorIdle /\ DimsIdle /\ VerIdle /\ RenderIdle /\ NotebookIdle /\ ScaleIdle /\ RunIdle

NextV6 ==
    \/ ParseFile /\ UNCHANGED <<toolVars, colorVars, dimsVars, verVars, pageVars>>
    \/ V6Outer /\ UNCHANGED <<toolVars, colorVars, dimsVars, verVars, pageVars>>
    \/ V6Inner /\ UNCHANGED <<toolVars, colorVars, dimsVars, verVars, pageVars>>
    \/ V6Emit /\ UNCHANGED <<toolVars, colorVars, dimsVars, verVars, pageVars>>

SpecV6 == InitV6 /\ [][NextV6]_vars

\* the same, the decoder running on: each step of the loops is taken
SpecV6Runs == InitV6 /\ [][NextV6]_vars /\ WF_vars(NextV6)

\* render_rm_to_png on a page file, a sidecar and its two arguments
InitRender == RenderInit /\ ColorIdle /\ VerIdle /\ NotebookIdle /\ ScaleIdle /\ RunIdle

NextRender ==
    \/ RenderStart /\ UNCHANGED <<toolVars, colorVars, verVars, notebookVars>>
    \/ ParseFile /\ UNCHANGED <<toolVars, colorVars, dimsVars, verVars, pageVars>>
    \/ ReadVersionAndLayers /\ UNCHANGED <<toolVars, colorVars, dimsVars, verVars, pageVars>>
    \/ LayerLoop /\ UNCHANGED <<toolVars, colorVars, dimsVars, verVars, pageVars>>
    \/ StrokeLoop /\ UNCHANGED <<toolVars, colorVars, dimsVars, verVars, pageVars>>
    \/ SegLoop /\ UNCHANGED <<toolVars, colorVars, dimsVars, verVars, pageVars>>
    \/ V6Outer /\ UNCHANGED <<toolVars, colorVars, dimsVars, verVars, pageVars>>
    \/ V6Inner /\ UNCHANGED <<toolVars, colorVars, dimsVars, verVars, pageVars>>
    \/ V6Emit /\ UNCHANGED <<toolVars, colorVars, dimsVars, verVars, pageVars>>
    \/ RenderPrepare /\ UNCHANGED <<toolVars, colorVars, verVars, notebookVars>>
    \/ RenderDraw /\ UNCHANGED <<toolVars, colorVars, verVars, notebookVars>>

SpecRender == InitRender /\ [][NextRender]_vars

\* _stroke_color_to_rgb on a colour identifier
InitColor == ColorInit /\ ParseIdle /\ DimsIdle /\ VerIdle /\ RenderIdle /\ NotebookIdle /\ ScaleIdle /\ RunIdle
NextColor == ResolveColor /\ UNCHANGED <<toolVars, parseVars, dimsVars, verVars, pageVars>>
SpecColor == InitColor /\ [][NextColor]_vars

\* render_notebook_pages on a notebook
InitNotebook == NotebookInit /\ ColorIdle /\ VerIdle /\ ScaleIdle /\ RunIdle

NextNotebook ==
    \/ NotebookStart /\ UNCHANGED <<toolVars, colorVars, verVars>>
    \/ NextPage /\ UNCHANGED <<toolVars, colorVars, verVars>>
    \/ PageRendered /\ UNCHANGED <<toolVars, colorVars, verVars>>
    \/ PageFailed /\ UNCHANGED <<toolVars, colorVars, verVars>>
    \/ RenderStart /\ UNCHANGED <<toolVars, colorVars, verVars, notebookVars>>
    \/ ParseFile /\ UNCHANGED <<toolVars, colorVars, dimsVars, verVars, pageVars>>
    \/ ReadVersionAndLayers /\ UNCHANGED <<toolVars, colorVars, dimsVars, verVars, pageVars>>
    \/ LayerLoop /\ UNCHANGED <<toolVars, colorVars, dimsVars, verVars, pageVars>>
    \/ StrokeLoop /\ UNCHANGED <<toolVars, colorVars, dimsVars, verVars, pageVars>>
    \/ SegLoop /\ UNCHANGED <<toolVars, colorVars, dimsVars, verVars, pageVars>>
    \/ V6Outer /\ UNCHANGED <<toolVars, colorVars, dimsVars, verVars, pageVars>>
    \/ V6Inner /\ UNCHANGED <<toolVars, colorVars, dimsVars, verVars, pageVars>>
    \/ V6Emit /\ UNCHANGED <<toolVars, colorVars, dimsVars, verVars, pageVars>>
    \/ RenderPrepare /\ UNCHANGED <<toolVars, colorVars, verVars, notebookVars>>
    \/ RenderDraw /\ UNCHANGED <<toolVars, colorVars, verVars, notebookVars>>

SpecNotebook == InitNotebook /\ [][NextNotebook]_vars

\* _scale_v6_strokes_to_canvas on one coordinate
InitScale ==
    ScaleInit /\ ParseIdle /\ ColorIdle /\ DimsIdle /\ VerIdle /\ RenderIdle /\ NotebookIdle /\ RunIdle
NextScale ==
    Rescale /\ UNCHANGED <<parseVars, colorVars, dimsVars, verVars, pageVars, runVars>>
SpecScale == InitScale /\ [][NextScale]_vars

\* get_page_dimensions_from_content on a sidecar
InitDims == DimsInit /\ ParseIdle /\ ColorIdle /\ VerIdle /\ RenderIdle /\ NotebookIdle /\ ScaleIdle /\ RunIdle
NextDims == ResolveDimensions /\ UNCHANGED <<toolVars, parseVars, colorVars, verVars, pageVars>>
SpecDims == InitDims /\ [][NextDims]_vars

\* _read_rm_version on a buffer
InitVersion == VerInit /\ ParseIdle /\ ColorIdle /\ DimsIdle /\ RenderIdle /\ NotebookIdle /\ ScaleIdle /\ RunIdle
NextVersion == SniffVersion /\ UNCHANGED <<toolVars, parseVars, colorVars, dimsVars, pageVars>>
SpecVersion == InitVersion /\ [][NextVersion]_vars

\* _run_notebook_mode on a data directory
InitRun ==
    RunInit /\ ParseIdle /\ ColorIdle /\ DimsIdle /\ VerIdle /\ RenderIdle /\ NotebookIdle /\ ScaleIdle
NextRun ==
    \/ ListNotebooks /\ UNCHANGED <<parseVars, colorVars, dimsVars, verVars, pageVars, scaleVars>>
    \/ RenderNotebook /\ UNCHANGED <<parseVars, colorVars, dimsVars, verVars, pageVars, scaleVars>>
    \/ OcrPage /\ UNCHANGED <<parseVars, colorVars, dimsVars, verVars, pageVars, scaleVars>>
    \/ EndNotebook /\ UNCHANGED <<parseVars, colorVars, dimsVars, verVars, pageVars, scaleVars>>
    \/ RunReturns /\ UNCHANGED <<parseVars, colorVars, dimsVars, verVars, pageVars, scaleVars>>
SpecRun == InitRun /\ [][NextRun]_vars

(***************************************************************************)
(* Properties                                                              *)
(***************************************************************************)
\* the structured decoder has returned its stroke list
StructuredReturned == pc = "returned" /\ file.gen = "structured"

\* the strokes of the file on disk, in on-disk order
OnDisk == FlatStrokes(file.layers)

\* the stroke records up to record s that hold at least one segment
WithSegments(s) == {q \in 1..s : OnDisk[q] >= 1}

\* C1 as stated: when a generation-3/5 buffer decodes without error, the
\* number of strokes returned is the sum over the layers of the stroke
\* counts declared on disk, whatever the segment counts (0 included).
C1_CountIsDeclaredSum ==
    StructuredReturned =>
        Len(result.strokes) = SumSeq([li \in 1..Len(file.layers) |-> Len(file.layers[li])])

\* C1 as amended: when a generation-3/5 buffer decodes without error, the
\* number of strokes returned is the number of stroke records on disk whose
\* segment count is at least 1 (a record with 0 segments emits no stroke).
C1_CountIsNonEmptyRecords ==
    StructuredReturned =>
        Len(result.strokes) = Cardinality(WithSegments(Len(OnDisk)))

C1_Witness ==
    /\ StructuredReturned
    /\ Len(file.layers) = 2
    /\ \E s \in 1..Len(OnDisk) : OnDisk[s] = 0
    /\ Len(result.strokes) >= 1

\* C2: every stroke either decoder returns has at least 2 points.
C2_AtLeastTwoPoints ==
    pc = "returned" =>
        \A k \in 1..Len(result.strokes) : Len(result.strokes[k][1]) >= 2

\* C3: in generations 3 and 5 a stroke record with segment count 1 decodes
\* to a stroke of exactly 2 points, both the (x, y) of that segment, with
\* the record's colour id.
C3_SingleSegmentDuplicated ==
    StructuredReturned =>
        \A s \in 1..Len(OnDisk) :
            OnDisk[s] = 1 =>
                LET p == PointOf(SegmentsBefore(file.layers, s) + 1)
                    k == Cardinality(WithSegments(s))
                IN  /\ k <= Len(result.strokes)
                    /\ result.strokes[k] = <<<<p, p>>, StrokeColorOf(s)>>

C3_Witness ==
    /\ StructuredReturned
    /\ file.digit = 53
    /\ Len(OnDisk) = 2 /\ OnDisk[1] = 2 /\ OnDisk[2] = 1
    /\ Len(result.strokes[2][1]) = 2

\* the identifier's R, G and B bytes
RawRgb(c) == <<(c[2] \div 65536) % 256, (c[2] \div 256) % 256, c[2] % 256>>
Resolved == colorOut # NoRgb

\* C4 as stated: the resolver applied to an identifier whose alpha byte is
\* 0 (and that is no palette slot) returns the identifier's raw R, G, B;
\* 0x00FF0000 and 0xFFFF0000 both resolve to (255, 0, 0).
C4_ZeroAlphaRawFromResolver ==
    Resolved =>
        /\ (colorIn[1] = 0 /\ colorIn[2] \notin 0..10 => colorOut = RawRgb(colorIn))
        /\ (colorIn = <<0, 16711680>> => colorOut = <<255, 0, 0>>)
        /\ (colorIn = <<255, 16711680>> => colorOut = <<255, 0, 0>>)

\* C4 as amended: the ARGB conversion applied to a word whose alpha byte is
\* 0 returns the raw R, G, B unblended; the resolver itself never hands
\* such a word to it and resolves a non-palette identifier with alpha 0,
\* 0x00FF0000 included, to black; 0xFFFF0000 resolves to (255, 0, 0).
C4_ZeroAlphaRawFromArgb ==
    /\ (colorIn[1] = 0 => ArgbToRgb(colorIn) = RawRgb(colorIn))
    /\ Resolved =>
        /\ (colorIn[1] = 0 /\ colorIn[2] \notin 0..10 => colorOut = <<0, 0, 0>>)
        /\ (colorIn = <<255, 16711680>> => colorOut = <<255, 0, 0>>)

C4_Witness == colorIn = <<0, 16711680>> /\ colorOut = <<0, 0, 0>>

\* C5: the resolver returns the palette triple for each of the 11 palette
\* identifiers 0..10 and black for every other identifier with no bit set
\* above the low 24.
PaletteTriples ==
    <<<<0, 0, 0>>, <<128, 128, 128>>, <<255, 255, 255>>, <<255, 235, 156>>,
      <<174, 214, 241>>, <<183, 228, 199>>, <<255, 201, 201>>, <<220, 80, 80>>,
      <<100, 149, 237>>, <<255, 200, 100>>, <<200, 162, 200>>>>

C5_PaletteOrBlack ==
    Resolved /\ colorIn[1] = 0 =>
        IF colorIn[2] <= 10
        THEN colorOut = PaletteTriples[colorIn[2] + 1]
        ELSE colorOut = <<0, 0, 0>>

C5_Witness == colorIn = <<0, 10>> /\ colorOut = <<200, 162, 200>>

\* C6: for every identifier the resolver returns three channels in 0..255;
\* with alpha strictly between 0 and 255 every channel lies between the raw
\* channel and 255; with alpha 255 every channel is the raw channel.
C6_BlendTowardWhite ==
    Resolved =>
        /\ \A ch \in 1..3 : colorOut[ch] \in 0..255
        /\ (colorIn[1] > 0 /\ colorIn[1] < 255 =>
                \A ch \in 1..3 :
                    RawRgb(colorIn)[ch] <= colorOut[ch] /\ colorOut[ch] <= 255)
        /\ (colorIn[1] = 255 => colorOut = RawRgb(colorIn))

DimsResolved == dimsOut # NoDims

\* C7: the page dimension resolver never raises, whatever the sidecar.
C7_NeverRaises == DimsResolved => dimsOut.kind = "ok"

\* the sidecar parsed to a JSON object whose width and height fields are
\* each absent or a number
NumericObject ==
    /\ sidecar.path = "file" /\ sidecar.read = "text" /\ sidecar.json = "object"
    /\ sidecar.w.t \in {"absent", "num"}
    /\ sidecar.h.t \in {"absent", "num"}

\* C8 as stated: for a sidecar that parses to a JSON object the result is
\* (w, h) with w the width field if present, else 1404, and h the height
\* field if present, else 1872.
C8_FieldIfPresent ==
    DimsResolved /\ NumericObject =>
        /\ dimsOut.kind = "ok"
        /\ IF sidecar.w.t = "absent" THEN dimsOut.w = 1404 ELSE 2 * dimsOut.w = sidecar.w.v
        /\ IF sidecar.h.t = "absent" THEN dimsOut.h = 1872 ELSE 2 * dimsOut.h = sidecar.h.v

\* the integer part of a number held in halves
IntPart(halves) == IF halves >= 0 THEN halves \div 2 ELSE -((-halves) \div 2)

\* C8 as amended: for a sidecar that parses to a JSON object whose width and
\* height fields are each absent or a number, the result is (w, h) with w
\* the integer part of the width field if it is present and not zero, else
\* 1404, and h the integer part of the height field if it is present and
\* not zero, else 1872, each chosen independently of the other.
C8_TruthyFieldTruncated ==
    DimsResolved /\ NumericObject =>
        /\ dimsOut.kind = "ok"
        /\ dimsOut.w = IF sidecar.w.t = "num" /\ sidecar.w.v # 0
                       THEN IntPart(sidecar.w.v) ELSE 1404
        /\ dimsOut.h = IF sidecar.h.t = "num" /\ sidecar.h.v # 0
                       THEN IntPart(sidecar.h.v) ELSE 1872

C8_Witness ==
    /\ sidecar.json = "object" /\ sidecar.w = JNum(0) /\ sidecar.h = JNum(4000)
    /\ dimsOut = DimsOk(1404, 2000)

\* C9: version sniffing fails exactly when the buffer does not start with
\* the 32-byte prefix; otherwise it returns 3, 5 or 6 for a following '3',
\* '5' or '6' and 3 for any other following byte or none.
HasPrefix ==
    /\ Len(verIn) >= 32
    /\ \A k \in 1..32 : verIn[k] = HEADER_PREFIX[k]

C9_VersionSniff ==
    verOut # NoVer =>
        /\ (verOut.exc # "" <=> ~HasPrefix)
        /\ HasPrefix =>
              verOut.v = IF Len(verIn) = 32 THEN 3
                         ELSE IF verIn[33] = 53 THEN 5
                         ELSE IF verIn[33] = 54 THEN 6
                         ELSE 3

C9_Witness == verIn = HEADER_PREFIX /\ verOut = VerOk(3)

\* C10: when a generation-3/5 buffer ends before a layer count, stroke
\* count, stroke record or segment record that the declared counts require,
\* decoding ends in an error that leaves _parse_rm_file: no stroke list is
\* returned, and no offset is read twice.
C10_ShortBufferRaises ==
    file.gen = "structured" /\ cut > 0 =>
        /\ pc # "returned"
        /\ result.kind # "ok"
        /\ (pc = "raised" =>
                /\ result.kind = "raise" /\ result.strokes = <<>>
                /\ \A j, k \in 1..Len(reads) : j < k => reads[j][2] < reads[k][2])
        /\ (pc # "raised" => ENABLED Next)

C10_Witness ==
    /\ pc = "raised" /\ file.gen = "structured" /\ cut > 0
    /\ result.exc = "struct.error"
    /\ Len(strokes) >= 1
    /\ Len(result.strokes) = 0

(***************************************************************************)
(* The heuristic decoder: what the bytes of a buffer hold                  *)
(***************************************************************************)
HeuristicReturned == pc = "returned" /\ version = 6

\* the offsets at which the stroke-block marker lies in the buffer
MarkersIn(buf) ==
    {o \in 0..(Len(buf) - 4) : SubSeq(buf, o + 1, o + 4) = LINE_DEF_FLAG_bytes}

\* the marker at o has a length word before it that is positive, at most
\* 2 MiB, and whose bytes the buffer holds
WholeBlock(buf, o) ==
    /\ o >= 4
    /\ U32At(buf, o - 4) > 0 /\ U32At(buf, o - 4) <= 2097152
    /\ o + 8 + U32At(buf, o - 4) <= Len(buf)

BlockBody(buf, o) == SubSeq(buf, o + 9, o + 8 + U32At(buf, o - 4))

\* the valid candidates of a block body: a 0x5C byte whose following length
\* is a positive multiple of 14 and whose declared bytes lie in the body
Candidates(bd) ==
    {c \in 0..(Len(bd) - 5) :
        /\ bd[c + 1] = 92
        /\ U32At(bd, c + 1) > 0
        /\ U32At(bd, c + 1) % 14 = 0
        /\ c + 5 + U32At(bd, c + 1) <= Len(bd)}

CandidateCount(bd, c) == U32At(bd, c + 1) \div 14

\* the markers that lead to an accepted point array
AcceptedBlocks(buf) ==
    {o \in MarkersIn(buf) : WholeBlock(buf, o) /\ Candidates(BlockBody(buf, o)) # {}}

\* a finite set of numbers in ascending order
RECURSIVE Ascending(_)
Ascending(S) ==
    IF S = {} THEN <<>>
    ELSE LET m == CHOOSE x \in S : \A y \in S : x <= y
         IN  <<m>> \o Ascending(S \ {m})

\* the returned points, stroke after stroke
ReturnedPoints == Flatten([k \in 1..Len(result.strokes) |-> result.strokes[k][1]])

\* the 8-byte point reads of the trace, in the order they were made
PointReads == SelectSeq(reads, LAMBDA r : r[1] = "body" /\ r[3] = 8)

\* C11: when the heuristic decoder returns at least one stroke, the box is
\* (min x, min y, max x, max y) over the returned points: every returned
\* point lies inside it and each edge is attained by a returned point;
\* each returned x is the stored x plus 702, each returned y the stored y.
C11_BoxBracketsPoints ==
    HeuristicReturned /\ result.strokes # <<>> =>
        LET box == result.bbox
            ps == ReturnedPoints
        IN  /\ \A j \in 1..Len(ps) :
                  /\ FLe(box[1], ps[j][1]) /\ FLe(ps[j][1], box[3])
                  /\ FLe(box[2], ps[j][2]) /\ FLe(ps[j][2], box[4])
            /\ \A e \in 1..4 :
                  \E j \in 1..Len(ps) : FEq(ps[j][IF e % 2 = 1 THEN 1 ELSE 2], box[e])
            /\ Len(PointReads) = Len(ps)
            /\ \A j \in 1..Len(ps) :
                  LET at == PointReads[j][4] + PointReads[j][2]
                  IN  /\ FEq(ps[j][1], FAdd(F32At(data, at), 702))
                      /\ FEq(ps[j][2], F32At(data, at + 4))

\* C12: when no stroke-block marker of the buffer leads to an accepted
\* point array, the heuristic decoder returns no stroke and the box
\* (0, 0, 1404, 1872).
C12_NoBlockDefaultBox ==
    HeuristicReturned /\ AcceptedBlocks(data) = {} =>
        result = Returned(<<>>, <<0, 0, 1404, 1872>>)

C12_Witness ==
    /\ HeuristicReturned
    /\ Cardinality(MarkersIn(data)) = 2
    /\ \E o \in MarkersIn(data) : WholeBlock(data, o)
    /\ \E o \in MarkersIn(data) : ~WholeBlock(data, o)
    /\ AcceptedBlocks(data) = {}
    /\ result.strokes = <<>> /\ result.bbox = <<0, 0, 1404, 1872>>

\* C13: the heuristic decoder never fails: every read it makes (the block
\* length before a marker, the array length after a 0x5C, the colour 18
\* bytes before it, each 8-byte point) lies in the buffer and in the
\* current block, and the decoder goes on until it returns its result.
C13_ReadsInBounds ==
    version = 6 =>
        /\ pc # "raised"
        /\ \A j \in 1..Len(reads) :
              LET r == reads[j]
              IN  IF r[1] = "data"
                  THEN r[2] >= 0 /\ r[2] + r[3] <= Len(data)
                  ELSE /\ r[2] >= 0 /\ r[2] + r[3] <= r[5]
                       /\ r[4] + r[5] <= Len(data)
        /\ (pc = "returned" => result.kind = "ok")
        /\ (pc # "returned" => ENABLED NextV6)

C13_Witness ==
    /\ HeuristicReturned
    /\ cut > 0
    /\ \E o \in MarkersIn(data) : o >= 4 /\ ~WholeBlock(data, o)
    /\ \E j \in 1..Len(reads) : reads[j][1] = "body" /\ reads[j][3] = 4 /\ reads[j][2] = 0
    /\ Len(PointReads) >= 1
    /\ Len(result.strokes) = 1

\* C20: a block whose body holds a valid candidate yields one stroke, which
\* has the greatest point count among the valid candidates of the block; a
\* block with no valid candidate yields no stroke.
C20_LongestCandidateWins ==
    HeuristicReturned =>
        LET acc == Ascending(AcceptedBlocks(data))
        IN  /\ Len(result.strokes) = Len(acc)
            /\ \A k \in 1..Len(acc) :
                  LET bd == BlockBody(data, acc[k])
                  IN  /\ \E c \in Candidates(bd) :
                            CandidateCount(bd, c) = Len(result.strokes[k][1])
                      /\ \A c \in Candidates(bd) :
                            CandidateCount(bd, c) <= Len(result.strokes[k][1])

C20_Witness ==
    /\ HeuristicReturned
    /\ \E o \in AcceptedBlocks(data) :
          /\ Cardinality(Candidates(BlockBody(data, o))) = 2
          /\ \E c, d \in Candidates(BlockBody(data, o)) :
                /\ c < d
                /\ CandidateCount(BlockBody(data, o), c) < CandidateCount(BlockBody(data, o), d)
    /\ Len(result.strokes) = 1 /\ Len(result.strokes[1][1]) = 2

\* the number of points of the strokes before stroke k
PointsBeforeStroke(k) == SumSeq([j \in 1..(k - 1) |-> Len(result.strokes[j][1])])

\* the offset in the buffer of the block body that the points of stroke k
\* were read from
StrokeBodyAt(k) == PointReads[PointsBeforeStroke(k) + 1][4]

\* C21: the heuristic decoder emits exactly one stroke for every marker
\* occurrence at offset >= 4 whose length word L has 0 < L <= 2 MiB, whose
\* block ends within the buffer and whose body holds a valid candidate,
\* and none for any other occurrence; a rejected occurrence does not stop
\* the scan; the strokes are in ascending order of marker offset.
C21_OneStrokePerQualifyingMarker ==
    HeuristicReturned =>
        LET acc == Ascending(AcceptedBlocks(data))
        IN  /\ Len(result.strokes) = Len(acc)
            /\ Len(PointReads) = PointsBeforeStroke(Len(result.strokes) + 1)
            /\ \A k \in 1..Len(acc) : StrokeBodyAt(k) = acc[k] + 8

C21_Witness ==
    /\ HeuristicReturned
    /\ Len(result.strokes) = 1
    /\ \E o, q \in MarkersIn(data) :
          /\ o < q
          /\ U32At(data, o - 4) = 2097153
          /\ q \in AcceptedBlocks(data)
          /\ StrokeBodyAt(1) = q + 8

\* the offset in its block body of the 0x5C marker of the array that the
\* points of stroke k were read from
StrokeMarkerAt(k) == PointReads[PointsBeforeStroke(k) + 1][2] - 5

\* C22: the colour of a heuristic-decoded stroke is the 32-bit
\* little-endian value at block offset m - 18, m the block offset of the
\* 0x5C marker of the chosen point array, when m >= 18, and 0 when m < 18.
C22_ColorEighteenBeforeMarker ==
    HeuristicReturned =>
        \A k \in 1..Len(result.strokes) :
            result.strokes[k][2] =
                IF StrokeMarkerAt(k) >= 18
                THEN ColorAt(data, StrokeBodyAt(k) + StrokeMarkerAt(k) - 18)
                ELSE <<0, 0>>

C22_Witness ==
    /\ HeuristicReturned
    /\ Len(result.strokes) = 2
    /\ StrokeMarkerAt(1) = 18 /\ result.strokes[1][2] = <<0, 1>>
    /\ StrokeMarkerAt(2) = 0 /\ result.strokes[2][2] = <<0, 0>>

\* the candidates of a block body that have the greatest point count
LongestCandidates(bd) ==
    {c \in Candidates(bd) :
        \A d \in Candidates(bd) : CandidateCount(bd, d) <= CandidateCount(bd, c)}

\* the longest candidate at the lowest offset
FirstLongest(bd) ==
    CHOOSE c \in LongestCandidates(bd) : \A d \in LongestCandidates(bd) : c <= d

\* C28: when several valid candidates of a block share the greatest point
\* count, the decoder chooses the one whose 0x5C marker is at the lowest
\* block offset: the stroke's points are read from just after that marker
\* and its colour is the one read relative to that marker.
C28_TieGoesToLowestOffset ==
    HeuristicReturned =>
        LET acc == Ascending(AcceptedBlocks(data))
        IN  /\ Len(result.strokes) = Len(acc)
            /\ \A k \in 1..Len(acc) :
                  LET bd == BlockBody(data, acc[k])
                      m == FirstLongest(bd)
                  IN  /\ StrokeMarkerAt(k) = m
                      /\ Len(result.strokes[k][1]) = CandidateCount(bd, m)
                      /\ \A j \in 1..CandidateCount(bd, m) :
                            PointReads[PointsBeforeStroke(k) + j][2] = m + 5 + 14 * (j - 1)
                      /\ result.strokes[k][2] =
                            (IF m >= 18 THEN ColorAt(bd, m - 18) ELSE <<0, 0>>)

C28_Witness ==
    /\ HeuristicReturned
    /\ Len(result.strokes) = 1
    /\ \E o \in AcceptedBlocks(data) :
          LET bd == BlockBody(data, o)
          IN  /\ LongestCandidates(bd) = {18, 37}
              /\ ColorAt(bd, 0) # ColorAt(bd, 19)
              /\ result.strokes[1][2] = ColorAt(bd, 0)
    /\ StrokeMarkerAt(1) = 18

\* a step that ends a turn of the outer loop moves pos forward, and no
\* other step moves it
OuterAdvances ==
    /\ (pc \in {"v6_outer", "v6_emit"} /\ pc' = "v6_outer") => pos' > pos
    /\ ~(pc \in {"v6_outer", "v6_emit"} /\ pc' = "v6_outer") => pos' = pos
    /\ pos' <= Len(data)

\* a step that ends a turn of the inner loop moves idx forward
InnerAdvances ==
    /\ (pc = "v6_inner" /\ pc' = "v6_inner") => idx' > idx
    /\ pc' = "v6_inner" => idx' <= Len(body')

EmittingRecords == Ascending(WithSegments(Len(OnDisk)))

\* the (x, y) of the segments of record s, in on-disk order
SegmentsOf(s) ==
    [j \in 1..OnDisk[s] |-> PointOf(SegmentsBefore(file.layers, s) + j)]

\* C25: the structured decoder emits its strokes in one flat list in the
\* relative order of their records on disk, layer after layer; each stroke
\* carries the colour id of its own record and the (x, y) of that record's
\* segments in on-disk order (the lone segment twice), and no point or
\* colour of another record.
C25_FlatListInDiskOrder ==
    StructuredReturned =>
        /\ Len(result.strokes) = Len(EmittingRecords)
        /\ \A k \in 1..Len(result.strokes) :
              LET s == EmittingRecords[k]
                  own == SegmentsOf(s)
              IN  /\ result.strokes[k][2] = StrokeColorOf(s)
                  /\ result.strokes[k][1] = (IF Len(own) = 1 THEN own \o own ELSE own)
                  /\ \A q \in 1..Len(OnDisk) :
                        q # s =>
                            /\ StrokeColorOf(q) # result.strokes[k][2]
                            /\ \A j \in 1..Len(SegmentsOf(q)) : \A e \in 1..Len(result.strokes[k][1]) :
                                  SegmentsOf(q)[j] # result.strokes[k][1][e]

C25_Witness ==
    /\ StructuredReturned
    /\ Len(file.layers) = 2
    /\ file.layers = <<<<1>>, <<1>>>>
    /\ Len(result.strokes) = 2
    /\ result.strokes[1] = <<<<PointOf(1), PointOf(1)>>, StrokeColorOf(1)>>
    /\ result.strokes[2] = <<<<PointOf(2), PointOf(2)>>, StrokeColorOf(2)>>

(***************************************************************************)
(* The page renderer                                                       *)
(***************************************************************************)
HeuristicPage == file.gen = "page" /\ file.digit = 54
StructuredPage == file.gen = "page" /\ file.digit = 51

\* what a sidecar of the pages says of a dimension, else the default
SidecarOr(field, default) ==
    IF sidecar.path = "file" /\ sidecar.json = "object" /\ field.t = "num" /\ field.v # 0
    THEN IntPart(field.v)
    ELSE default

\* the nominal canvas: the argument, else the sidecar, else 1404 by 1872
NominalW == IF width.given THEN width.v ELSE SidecarOr(sidecar.w, 1404)
NominalH == IF height.given THEN height.v ELSE SidecarOr(sidecar.h, 1872)

\* C14: on a canvas of width and height at least 1, every coordinate
\* handed to line drawing lies in 0..width-1 (x) and 0..height-1 (y) of
\* the final canvas, on the structured and on the heuristic path.
C14_DrawnInsideCanvas ==
    image.kind # "none" /\ image.w >= 1 /\ image.h >= 1 =>
        /\ image.w = canvas_w /\ image.h = canvas_h
        /\ \A j \in 1..Len(lines) :
              \A e \in 2..3 :
                  /\ lines[j][e][1] \in 0..(image.w - 1)
                  /\ lines[j][e][2] \in 0..(image.h - 1)

C14_Witness ==
    /\ pc = "saved" /\ HeuristicPage
    /\ height = Arg(5) /\ image.h > 5
    /\ \E k \in 1..Len(result.strokes) : IsNaN(result.strokes[k][1][1][1])
    /\ \E j \in 1..Len(lines) : lines[j][3] = <<image.w - 1, image.h - 1>>
    /\ \E j \in 1..Len(lines) : lines[j][2][1] = 0

\* the height of the bounding box, once a canvas was opened for the page
BoxHeight == FSub(result.bbox[4], result.bbox[2])

\* C15 as stated: on the heuristic path the canvas height is the integer
\* part of c + 40 if c + 40 > H, else H; it is never less than H nor than
\* c; the width is never changed; on the structured path neither is.
C15_GrowsWhenMarginExceeds ==
    image.kind # "none" =>
        /\ image.w = NominalW
        /\ StructuredPage => image.h = NominalH
        /\ HeuristicPage =>
              /\ image.h = IF FLt(NominalH, FAdd(BoxHeight, 40))
                           THEN FAdd(BoxHeight, 40) ELSE NominalH
              /\ image.h >= NominalH
              /\ ~FLt(image.h, BoxHeight)

\* C15 as amended: on the heuristic path, for a box height c that is not
\* infinite, the canvas height is the integer part of c + 40 if c > 0 and
\* c + 40 > H, else H; it is never less than H nor than c; the width is
\* never changed; on the structured path neither dimension is.
C15_GrowsWhenContentAndMarginExceed ==
    image.kind # "none" =>
        /\ image.w = NominalW
        /\ StructuredPage => image.h = NominalH
        /\ HeuristicPage =>
              /\ ~IsInf(BoxHeight)
              /\ image.h = IF FLt(0, BoxHeight) /\ FLt(NominalH, FAdd(BoxHeight, 40))
                           THEN FAdd(BoxHeight, 40) ELSE NominalH
              /\ image.h >= NominalH
              /\ ~FLt(image.h, BoxHeight)

C15_Witness ==
    /\ pc = "saved" /\ HeuristicPage
    /\ ~height.given /\ NominalH = 7
    /\ BoxHeight = 117
    /\ image.h = 157 /\ image.w = NominalW
    /\ Len(lines) >= 1

\* the lines of the trace that cover pixel q of the image
Covering(q) == {j \in 1..Len(lines) : q \in lines[j][5]}

\* C16: the saved image is a white canvas overwritten by the strokes in
\* decode order: a pixel covered by a drawn stroke has the resolved colour
\* of the last stroke, in decode order, that covers it; any other pixel is
\* white.
C16_LastStrokeWins ==
    pc = "saved" =>
        /\ image.bg = <<255, 255, 255>>
        /\ \A j, k \in 1..Len(lines) : j < k => lines[j][1] <= lines[k][1]
        /\ \A j \in 1..Len(lines) :
              /\ lines[j][5] \subseteq DOMAIN image.px
              /\ {lines[j][2], lines[j][3]} \subseteq lines[j][5]
        /\ \A q \in DOMAIN image.px :
              /\ Covering(q) # {}
              /\ LET last == CHOOSE j \in Covering(q) : \A k \in Covering(q) : k <= j
                 IN  image.px[q] = StrokeColorToRgb(result.strokes[lines[last][1]][2])

C16_Witness ==
    /\ pc = "saved"
    /\ Len(result.strokes) = 2
    /\ \E q \in DOMAIN image.px :
          /\ \E j, k \in Covering(q) : lines[j][1] = 1 /\ lines[k][1] = 2
          /\ image.px[q] = StrokeColorToRgb(result.strokes[2][2])
          /\ image.px[q] # StrokeColorToRgb(result.strokes[1][2])
    /\ \E q \in DOMAIN image.px : image.px[q] = StrokeColorToRgb(result.strokes[1][2])
    /\ Cardinality(DOMAIN image.px) < image.w * image.h

\* C17: for a structured page the output image is W by H, W the width
\* argument if given, else the sidecar's width, else 1404, and H the height
\* argument if given, else the sidecar's height, else 1872.
C17_ArgumentThenSidecarThenDefault ==
    StructuredPage /\ image.kind # "none" =>
        /\ image.w = (IF width.given THEN width.v
                      ELSE IF sidecar.path = "file" THEN 8 ELSE 1404)
        /\ image.h = (IF height.given THEN height.v
                      ELSE IF sidecar.path = "file" THEN 7 ELSE 1872)

C17_Witness ==
    /\ pc = "saved" /\ StructuredPage
    /\ width = Arg(6) /\ ~height.given /\ sidecar.path = "file"
    /\ image.w = 6 /\ image.h = 7
    /\ Len(lines) >= 1

(***************************************************************************)
(* The notebook renderer                                                   *)
(***************************************************************************)
\* a page's stroke file is a file and nothing in it makes its rendering
\* fail: it is whole and, on the structured path, its coordinates are
\* numbers
PageRenders(page) ==
    /\ page.rm = "file"
    /\ page.cut = 0
    /\ \/ page.file.digit = 54
       \/ \A k \in 1..Len(page.file.blocks) : \A j \in 1..Len(page.file.blocks[k]) :
              IsFinite(page.file.blocks[k][j][1]) /\ IsFinite(page.file.blocks[k][j][2])

\* the outcome of a page taken alone: its image, a copy of its preview, or
\* nothing
OutcomeAlone(page) ==
    IF PageRenders(page) THEN "image"
    ELSE IF page.thumb # "none" THEN "copy"
    ELSE "none"

\* the indexes of the pages that have an outcome, in page order
ExpectedPaths ==
    LET indexes == [k \in 1..Len(notebook) |-> k - 1]
    IN  SelectSeq(indexes, LAMBDA n : OutcomeAlone(notebook[n + 1]) # "none")

\* every output so far belongs to one page and is that page's own outcome
OutputsScopedToPage ==
    /\ Len(out_files) = Len(paths)
    /\ \A j \in 1..Len(out_files) :
          /\ out_files[j].index = paths[j]
          /\ out_files[j].index < Len(notebook)
          /\ out_files[j].kind = OutcomeAlone(notebook[out_files[j].index + 1])
          /\ out_files[j].kind = "image" => out_files[j].image.kind = "saved"

\* C18: a decode or render failure of a page never aborts the call and
\* never changes what the other pages produce: the call is not left by an
\* exception while a failed page is handled, and every page's output and
\* list entry are what the page produces alone.
C18_FailureScopedToPage ==
    /\ ~(call = "aborted" /\ result.kind = "raise")
    /\ OutputsScopedToPage
    /\ call = "returned" => paths = ExpectedPaths

\* C19: when the call ends, every page has exactly one outcome, the
\* rendered image if its stroke file renders, else a copy of its preview if
\* it has one, else no entry; and the call returns the pages that have an
\* output, in page order, each under its page index.
C19_OneOutcomePerPage ==
    pc \in {"done", "aborted"} =>
        /\ call = "returned"
        /\ paths = ExpectedPaths
        /\ \A k \in 1..Len(notebook) :
              Cardinality({j \in 1..Len(out_files) :
                              /\ out_files[j].index = k - 1
                              /\ out_files[j].kind = OutcomeAlone(notebook[k])})
                  = (IF OutcomeAlone(notebook[k]) = "none" THEN 0 ELSE 1)
        /\ \A j \in 1..Len(out_files) :
              out_files[j].kind = OutcomeAlone(notebook[out_files[j].index + 1])

(***************************************************************************)
(* The rescaling of the heuristic path                                     *)
(***************************************************************************)
\* floor of n / d for d > 0, then the clamp into 0..dim - 1
PixelOf(n, d, dim) ==
    LET q == n \div d
    IN  IF q < 0 THEN 0 ELSE IF q > dim - 1 THEN dim - 1 ELSE q

ScaleSpan == scaleIn.hi - scaleIn.lo

\* C23 as stated: each coordinate is rescaled as
\* (coord - min) / max(span, 1) * (dimension - 1) and clamped into
\* [0, dimension - 1], for every box with max >= min, spans strictly
\* between 0 and 1 included: the divisor is max(span, 1).
C23_DivisorIsMaxOfSpanAndOne ==
    scaleOut # -1 =>
        scaleOut = PixelOf((scaleIn.x - scaleIn.lo) * (scaleIn.dim - 1),
                           IF ScaleSpan > StepsPerOne THEN ScaleSpan ELSE StepsPerOne, scaleIn.dim)

\* C23 as amended: each coordinate is rescaled as
\* (coord - min) / d * (dimension - 1) and clamped into [0, dimension - 1],
\* where for every box of numbers with max >= min the divisor d is the
\* span itself when the span is not 0, spans strictly between 0 and 1
\* included, and 1 when the span is 0.
C23_DivisorIsSpanUnlessZero ==
    scaleOut # -1 =>
        scaleOut = PixelOf((scaleIn.x - scaleIn.lo) * (scaleIn.dim - 1),
                           IF ScaleSpan # 0 THEN ScaleSpan ELSE StepsPerOne, scaleIn.dim)

C23_Witness ==
    /\ ScaleSpan > 0 /\ ScaleSpan < StepsPerOne
    /\ scaleIn.x = scaleIn.hi
    /\ scaleIn.dim = 8
    /\ scaleOut = 7

(***************************************************************************)
(* The page with no strokes                                                *)
(***************************************************************************)
\* C29: a generation-6 file from which no stroke is recovered, rendered
\* with no explicit height and a nominal page height of 1872, has the
\* default bounding box (0, 0, 1404, 1872) and a canvas of height
\* 1872 + 40 = 1912, not 1872.
C29_EmptyPageGrowsToMargin ==
    /\ pc = "saved" /\ HeuristicPage /\ result.strokes = <<>>
    /\ ~height.given /\ NominalH = RM2_HEIGHT
    => /\ result.bbox = <<0, 0, 1404, 1872>>
       /\ image.h = 1912

C29_Witness ==
    /\ pc = "saved" /\ HeuristicPage /\ result.strokes = <<>>
    /\ ~height.given /\ sidecar.path = "none"
    /\ canvas_h = 1912 /\ image.h = 1912
    /\ lines = <<>>

(***************************************************************************)
(* Pages of one notebook do not reach each other                           *)
(***************************************************************************)
\* the page being rendered
CurrentPage == notebook[page_k + 1]

\* the points a page's own file holds, as the decoder of its generation
\* returns them
OwnPoints(page) ==
    [k \in 1..Len(page.file.blocks) |->
        [j \in 1..Len(page.file.blocks[k]) |->
            IF page.file.digit = 54
            THEN <<page.file.blocks[k][j][1] + 702, page.file.blocks[k][j][2]>>
            ELSE page.file.blocks[k][j]]]

\* the box of a page's own points
OwnBox(page) ==
    LET ps == Flatten(OwnPoints(page))
        xs == {ps[j][1] : j \in 1..Len(ps)}
        ys == {ps[j][2] : j \in 1..Len(ps)}
        Least(S) == CHOOSE v \in S : \A u \in S : v <= u
        Most(S) == CHOOSE v \in S : \A u \in S : v >= u
    IN  <<Least(xs), Least(ys), Most(xs), Most(ys)>>

\* the canvas height of a page taken alone
OwnHeight(page) ==
    LET nominal == SidecarOr(sidecar.h, 1872)
        c == OwnBox(page)[4] - OwnBox(page)[2]
    IN  IF page.file.digit = 54 /\ c > 0 /\ c + 40 > nominal THEN c + 40 ELSE nominal

\* every call of render_rm_to_png starts from the state a call on that
\* page alone starts from
PageStartsAsAlone ==
    pc' = "render_start" =>
        /\ data' = SubSeq(FileBytes(CurrentPage.file), 1,
                          Len(FileBytes(CurrentPage.file)) - CurrentPage.cut)
        /\ version' = 0 /\ strokes' = <<>> /\ points' = <<>>
        /\ all_x' = <<>> /\ all_y' = <<>> /\ result' = NoResult
        /\ pos' = 0 /\ i' = 0 /\ off' = 0
        /\ canvas_w' = 0 /\ canvas_h' = 0 /\ drawn' = <<>> /\ draw_k' = 0
        /\ lines' = <<>> /\ image' = NoImage

\* what a page that has been rendered has given, whatever pages came before
PageResultIsOwn ==
    pc = "saved" /\ call = "running" =>
        /\ [k \in 1..Len(result.strokes) |-> result.strokes[k][1]] = OwnPoints(CurrentPage)
        /\ CurrentPage.file.digit = 54 => result.bbox = OwnBox(CurrentPage)
        /\ image.w = SidecarOr(sidecar.w, 1404)
        /\ image.h = OwnHeight(CurrentPage)

\* the images written so far are those of their pages alone, and two equal
\* pages of a notebook have equal images
OutputsAreOwn ==
    \A j \in 1..Len(out_files) :
        out_files[j].kind = "image" =>
            /\ out_files[j].image.h = OwnHeight(notebook[out_files[j].index + 1])
            /\ \A k \in 1..Len(out_files) :
                  /\ out_files[k].kind = "image"
                  /\ notebook[out_files[k].index + 1] = notebook[out_files[j].index + 1]
                  => out_files[k].image = out_files[j].image

C27_OutputPathsDistinct ==
    \A j, k \in 1..Len(written) :
        written[j].path = written[k].path =>
            written[j].uuid = written[k].uuid /\ written[j].index = written[k].index

\* C30: for every image render_notebook_pages returned, the cache key
\* of its ocr_image call, page_<place in the list>, is the stem of the
\* image's file name, page_<page index>, also when a page gave no image or
\* the indices have gaps.
C30_CacheKeyIsFileStem ==
    \A j \in 1..Len(ocr_calls) : ocr_calls[j].key = ocr_calls[j].image.stem

====
